---- MODULE Spec2Model ----
(***************************************************************************)
(* Smart-Expense-Visualizer: the expense store (utils/helpers.py) and the  *)
(* rule-based query resolver (chatbot/query_handler.py).                   *)
(*                                                                         *)
(* Text is modelled at the character level: a Python str is a sequence of  *)
(* one-character strings, so that `in`, str.lower, str.title, str.strip    *)
(* and the regular expressions of the resolver are computed, not assumed.  *)
(* A cell that pandas holds as NaN / NaT is the empty sequence <<>>; a     *)
(* present value v is <<v>>.  Amounts are held in hundredths of a rupee.   *)
(***************************************************************************)
EXTENDS Integers, Sequences, FiniteSets, TLC

VARIABLES
    csv,        \* data/expenses.csv (DATA_PATH): [exists, rows]
    reports,    \* reports/expenses_summary.csv: [exists, hasDate, hasNote, rows]
    pc,         \* position of _rule_based_answer: "idle", "running", "done",
                \* "raised" (an exception left the function)
    rule,       \* index of the rule _rule_based_answer is about to try
    query,      \* the argument of _rule_based_answer
    low,        \* local `low`
    df,         \* local `df`, the frame load_data returned
    out,        \* local `out` / `row`: the rows the answering rule selected
    answer,     \* the string returned
    hpc,        \* position of handle_query: "idle", "llm", "answered",
                \* "fallback", "returned"
    user_input, \* the argument of handle_query: None (<<>>) or <<text>>
    hquery,     \* local `query` of handle_query
    ai_answer,  \* local `ai_answer` of handle_query
    reply,      \* the string handle_query returns
    edit,       \* the last call of update_expense_row / delete_expense_row:
                \* its arguments, the file before it and what it returned
    saving,     \* the save_expense calls of the sessions: position, the
                \* frame read and the new row of each
    session_state   \* st.session_state of one chatbot session, and the last
                \* call of handle_query the session made

resolver == <<pc, rule, query, low, df, out, answer>>
chat == <<hpc, user_input, hquery, ai_answer, reply>>
ui == <<edit, saving, session_state>>
vars == <<csv, reports, pc, rule, query, low, df, out, answer,
          hpc, user_input, hquery, ai_answer, reply, edit, saving, session_state>>

----------------------------------------------------------------------------
(* Bounds of the model *)

MaxRows == 3        \* save_expense is called while the CSV holds fewer rows
BulkRows == 52      \* rows of the large reports file (more than PreviewCap)

----------------------------------------------------------------------------
(* Sequences *)

\* the sequence <<Op(1), ..., Op(n)>> as a tuple whose elements are computed once
Build(n, Op(_)) == SubSeq([i \in 1..n |-> Op(i)], 1, n)

\* ss[1] \o ... \o ss[n] of a sequence of sequences, by halves
RECURSIVE Flatten(_)
Flatten(ss) ==
    IF Len(ss) = 0 THEN <<>>
    ELSE IF Len(ss) = 1 THEN ss[1]
    ELSE Flatten(SubSeq(ss, 1, Len(ss) \div 2)) \o Flatten(SubSeq(ss, Len(ss) \div 2 + 1, Len(ss)))

\* the sum of a sequence of numbers, by halves
RECURSIVE SumSeq(_)
SumSeq(ns) ==
    IF Len(ns) = 0 THEN 0
    ELSE IF Len(ns) = 1 THEN ns[1]
    ELSE SumSeq(SubSeq(ns, 1, Len(ns) \div 2)) + SumSeq(SubSeq(ns, Len(ns) \div 2 + 1, Len(ns)))

\* the strings of a sequence joined, by halves
RECURSIVE JoinSeq(_)
JoinSeq(ts) ==
    IF Len(ts) = 0 THEN ""
    ELSE IF Len(ts) = 1 THEN ts[1]
    ELSE JoinSeq(SubSeq(ts, 1, Len(ts) \div 2)) \o JoinSeq(SubSeq(ts, Len(ts) \div 2 + 1, Len(ts)))

----------------------------------------------------------------------------
(* Characters and strings (Python str) *)

UpperLetters == <<"A","B","C","D","E","F","G","H","I","J","K","L","M","N","O","P","Q","R","S","T","U","V","W","X","Y","Z">>
LowerLetters == <<"a","b","c","d","e","f","g","h","i","j","k","l","m","n","o","p","q","r","s","t","u","v","w","x","y","z">>
DigitChars == <<"0","1","2","3","4","5","6","7","8","9">>

UpperSet == {UpperLetters[i] : i \in 1..26}
LowerSet == {LowerLetters[i] : i \in 1..26}
DigitSet == {DigitChars[i] : i \in 1..10}

IsAlpha(c) == c \in UpperSet \/ c \in LowerSet
IsDigit(c) == c \in DigitSet
IsSpace(c) == c \in {" ", "\t", "\n"}
IsAlphaSpace(c) == IsAlpha(c) \/ IsSpace(c)

LowerChar(c) ==
    IF c \in UpperSet THEN LowerLetters[CHOOSE i \in 1..26 : UpperLetters[i] = c] ELSE c
UpperChar(c) ==
    IF c \in LowerSet THEN UpperLetters[CHOOSE i \in 1..26 : LowerLetters[i] = c] ELSE c
DigitVal(c) == (CHOOSE i \in 1..10 : DigitChars[i] = c) - 1
DigitChar(n) == DigitChars[n + 1]

\* str.lower()
StrLower(s) == Build(Len(s), LAMBDA i : LowerChar(s[i]))

\* str.title(): a letter that follows a non-letter is upper-cased, any other lower-cased
StrTitle(s) ==
    Build(Len(s), LAMBDA i :
        IF i = 1 \/ ~IsAlpha(s[i-1]) THEN UpperChar(s[i]) ELSE LowerChar(s[i]))

\* str.strip()
StrStrip(s) ==
    LET keep == {i \in 1..Len(s) : ~IsSpace(s[i])}
    IN  IF keep = {} THEN <<>>
        ELSE SubSeq(s, CHOOSE i \in keep : \A j \in keep : i <= j,
                       CHOOSE i \in keep : \A j \in keep : i >= j)

\* needle at position i of hay
IsAt(hay, i, needle) ==
    /\ i >= 1
    /\ i + Len(needle) - 1 <= Len(hay)
    /\ \A k \in 1..Len(needle) : hay[i + k - 1] = needle[k]

\* `needle in hay`
Contains(hay, needle) == \E i \in 1..(Len(hay) - Len(needle) + 1) : IsAt(hay, i, needle)

\* int(text) of a run of decimal digits
RECURSIVE ParseInt(_)
ParseInt(ds) ==
    IF ds = <<>> THEN 0
    ELSE 10 * ParseInt(SubSeq(ds, 1, Len(ds) - 1)) + DigitVal(ds[Len(ds)])

\* the Python str as one TLA+ string (the returned answer)
Text(s) == JoinSeq(s)

----------------------------------------------------------------------------
(* Optional cells *)

NA == <<>>
Some(v) == <<v>>
IsNa(x) == x = <<>>
Val(x) == x[1]

Max2(a, b) == IF a >= b THEN a ELSE b
Min2(a, b) == IF a <= b THEN a ELSE b

----------------------------------------------------------------------------
(* Dates *)

IsLeap(y) == (y % 4 = 0 /\ y % 100 # 0) \/ y % 400 = 0
DaysIn(y, m) ==
    IF m = 2 THEN (IF IsLeap(y) THEN 29 ELSE 28)
    ELSE IF m \in {4, 6, 9, 11} THEN 30 ELSE 31
\* a calendar date a pandas Timestamp can hold (its range is 1677-09-21 .. 2262-04-11;
\* the model keeps to whole years)
ValidDate(y, m, d) == y >= 1678 /\ y <= 2261 /\ m \in 1..12 /\ d >= 1 /\ d <= DaysIn(y, m)

\* a timestamp at midnight as the number yyyymmdd (ordered as the dates are)
Stamp(y, m, d) == y * 10000 + m * 100 + d
YearOf(t) == t \div 10000
MonthOf(t) == (t \div 100) % 100
DayOf(t) == t % 100

Pad2(n) == <<DigitChar(n \div 10), DigitChar(n % 10)>>
Pad4(n) == Pad2(n \div 100) \o Pad2(n % 100)

\* datetime.date.__str__ / Timestamp.date().__str__: YYYY-MM-DD
IsoFormat(y, m, d) == Pad4(y) \o <<"-">> \o Pad2(m) \o <<"-">> \o Pad2(d)
StampIso(t) == IsoFormat(YearOf(t), MonthOf(t), DayOf(t))

\* the shape \d{4}-\d{2}-\d{2}
IsIsoShape(s) ==
    /\ Len(s) = 10
    /\ \A i \in {1, 2, 3, 4, 6, 7, 9, 10} : IsDigit(s[i])
    /\ s[5] = "-" /\ s[8] = "-"

\* pd.to_datetime of one string: the timestamp, or NA where it raises / coerces
\* to NaT.  Strings of the ISO shape are parsed; any other text of the model
\* ("n/a") is not a date.
ToDatetime(s) ==
    IF IsIsoShape(s)
    THEN LET y == ParseInt(SubSeq(s, 1, 4))
             m == ParseInt(SubSeq(s, 6, 7))
             d == ParseInt(SubSeq(s, 9, 10))
         IN  IF ValidDate(y, m, d) THEN Some(Stamp(y, m, d)) ELSE NA
    ELSE NA

----------------------------------------------------------------------------
(* The CSV files and load_data *)

NoFile == [exists |-> FALSE, rows |-> <<>>]

\* DataFrame.to_csv of one row: NaN is written as an empty cell
ToCsvRow(r) ==
    [Date     |-> IF IsNa(r.Date) THEN <<>> ELSE Val(r.Date),
     Category |-> IF IsNa(r.Category) THEN <<>> ELSE Val(r.Category),
     Amount   |-> r.Amount,
     Note     |-> IF IsNa(r.Note) THEN <<>> ELSE Val(r.Note)]

\* pd.read_csv of one row: an empty cell is read as NaN
ReadCsvRow(c) ==
    [Date     |-> IF c.Date = <<>> THEN NA ELSE Some(c.Date),
     Category |-> IF c.Category = <<>> THEN NA ELSE Some(c.Category),
     Amount   |-> c.Amount,
     Note     |-> IF c.Note = <<>> THEN NA ELSE Some(c.Note)]

ReadCsv(file) == Build(Len(file.rows), LAMBDA i : ReadCsvRow(file.rows[i]))
ToCsv(frame) == [exists |-> TRUE, rows |-> Build(Len(frame), LAMBDA i : ToCsvRow(frame[i]))]

\* reports_data['Note'] = '' when the file has no Note column; a Date column
\* the file does not have is filled with NaN by pd.concat
ReadReports(file) ==
    Build(Len(file.rows), LAMBDA i :
        LET r == ReadCsvRow(file.rows[i])
            n == IF file.hasNote THEN r ELSE [r EXCEPT !.Note = Some(<<>>)]
        IN  IF file.hasDate THEN n ELSE [n EXCEPT !.Date = NA])

DupKey(r) == <<r.Date, r.Category, r.Amount>>

\* drop_duplicates(subset=['Date','Category','Amount'], keep='first')
DropDuplicates(frame) ==
    LET key == Build(Len(frame), LAMBDA i : DupKey(frame[i]))
    IN  Flatten(Build(Len(frame), LAMBDA i :
            IF \A j \in 1..(i-1) : key[j] # key[i] THEN <<frame[i]>> ELSE <<>>))

\* combined_data['Date'] = pd.to_datetime(combined_data['Date'], errors='coerce')
ParseDates(frame) ==
    Build(Len(frame), LAMBDA i :
        [frame[i] EXCEPT !.Date = IF IsNa(frame[i].Date) THEN NA
                                  ELSE ToDatetime(Val(frame[i].Date))])

\* position of row i in sort_values('Date'): ascending, NaT last, rows of equal
\* date in their previous order
SortRank(frame, i) ==
    Cardinality({j \in 1..Len(frame) :
        \/ /\ ~IsNa(frame[j].Date) /\ ~IsNa(frame[i].Date)
           /\ \/ Val(frame[j].Date) < Val(frame[i].Date)
              \/ Val(frame[j].Date) = Val(frame[i].Date) /\ j < i
        \/ ~IsNa(frame[j].Date) /\ IsNa(frame[i].Date)
        \/ IsNa(frame[j].Date) /\ IsNa(frame[i].Date) /\ j < i}) + 1

\* sort_values('Date').reset_index(drop=True)
SortByDate(frame) ==
    LET rank == Build(Len(frame), LAMBDA i : SortRank(frame, i))
    IN  Build(Len(frame), LAMBDA p : frame[CHOOSE i \in 1..Len(frame) : rank[i] = p])

\* the frames load_data collects: a file is read if it exists and is not empty
AllData(mainFile, reportsFile) ==
    (IF mainFile.exists /\ Len(mainFile.rows) > 0 THEN ReadCsv(mainFile) ELSE <<>>)
    \o (IF reportsFile.exists /\ Len(reportsFile.rows) > 0 THEN ReadReports(reportsFile) ELSE <<>>)

\* load_data(): merged, de-duplicated, dates parsed, sorted by date
LoadData(mainFile, reportsFile) ==
    SortByDate(ParseDates(DropDuplicates(AllData(mainFile, reportsFile))))

\* drop_duplicates(subset=['Date', ...]) raises KeyError when no frame that was
\* read has a Date column: the main file always has one (save_expense writes
\* it), a reports file may not
LoadRaises(mainFile, reportsFile) ==
    /\ reportsFile.exists /\ Len(reportsFile.rows) > 0 /\ ~reportsFile.hasDate
    /\ ~(mainFile.exists /\ Len(mainFile.rows) > 0)

\* str(e) of that KeyError
KeyErrorText == "Index(['Date'], dtype='object')"

\* the sort key of a row: its date, NaT after every date
DateKey(r) == IF IsNa(r.Date) THEN 99999999 ELSE Val(r.Date)

\* the permutations of 1..n
Perms(n) == {f \in [1..n -> 1..n] : \A i, j \in 1..n : i # j => f[i] # f[j]}

\* sort_values('Date') sorts with kind='quicksort', which is not stable: rows
\* of equal date come out in an order the sort does not fix.  The frames
\* load_data can return are the rearrangements of the stably sorted one that
\* keep the dates ascending.
LoadOutcomes(mainFile, reportsFile) ==
    LET s == LoadData(mainFile, reportsFile)
        n == Len(s)
    IN  IF \A i \in 1..(n - 1) : DateKey(s[i]) # DateKey(s[i + 1]) THEN {s}
        ELSE {Build(n, LAMBDA i : s[f[i]]) :
                f \in {g \in Perms(n) : \A i \in 1..n : DateKey(s[g[i]]) = DateKey(s[i])}}

----------------------------------------------------------------------------
(* Regular expressions of the resolver (re.search on `low`)                *)
(* A pattern is a sequence of elements: a literal, \s+, (\d+), ([a-zA-Z]+), *)
(* (\d{4}) or (\d{4}-\d{2}-\d{2}).  In these patterns every greedy run is   *)
(* followed by an element of a disjoint character class, so the run is the  *)
(* maximal one and no backtracking is involved.                             *)

Lit(s) == [k |-> "lit", s |-> s]
Ws == [k |-> "ws", s |-> <<>>]
GDigits == [k |-> "digits", s |-> <<>>]
GAlpha == [k |-> "alpha", s |-> <<>>]
GYear == [k |-> "d4", s |-> <<>>]
GDate == [k |-> "date", s |-> <<>>]

InClass(c, cls) ==
    CASE cls = "ws" -> IsSpace(c)
      [] cls = "digits" -> IsDigit(c)
      [] cls = "alpha" -> IsAlpha(c)
      [] cls = "alphaspace" -> IsAlphaSpace(c)

\* first index >= i of s that is past the end or not in the class
RunEnd(s, i, cls) ==
    CHOOSE e \in i..(Len(s) + 1) :
        /\ e = Len(s) + 1 \/ ~InClass(s[e], cls)
        /\ \A k \in i..(e - 1) : InClass(s[k], cls)

\* the groups of a match of pat[j..] starting at s[i], or NA
RECURSIVE MatchFrom(_, _, _, _)
MatchFrom(s, i, pat, j) ==
    IF j > Len(pat) THEN Some(<<>>)
    ELSE LET e == pat[j] IN
      CASE e.k = "lit" ->
             IF IsAt(s, i, e.s) THEN MatchFrom(s, i + Len(e.s), pat, j + 1) ELSE NA
        [] e.k = "ws" ->
             LET end == RunEnd(s, i, "ws")
             IN  IF end > i THEN MatchFrom(s, end, pat, j + 1) ELSE NA
        [] e.k \in {"digits", "alpha"} ->
             LET end == RunEnd(s, i, e.k)
                 rest == MatchFrom(s, end, pat, j + 1)
             IN  IF end > i /\ ~IsNa(rest)
                 THEN Some(<<SubSeq(s, i, end - 1)>> \o Val(rest)) ELSE NA
        [] e.k = "d4" ->
             LET rest == MatchFrom(s, i + 4, pat, j + 1)
             IN  IF i + 3 <= Len(s) /\ (\A k \in i..(i + 3) : IsDigit(s[k])) /\ ~IsNa(rest)
                 THEN Some(<<SubSeq(s, i, i + 3)>> \o Val(rest)) ELSE NA
        [] e.k = "date" ->
             LET rest == MatchFrom(s, i + 10, pat, j + 1)
             IN  IF i + 9 <= Len(s) /\ IsIsoShape(SubSeq(s, i, i + 9)) /\ ~IsNa(rest)
                 THEN Some(<<SubSeq(s, i, i + 9)>> \o Val(rest)) ELSE NA

\* re.search(pat, s): the groups of the leftmost match, or NA
Search(s, pat) ==
    LET starts == {i \in 1..Len(s) : ~IsNa(MatchFrom(s, i, pat, 1))}
    IN  IF starts = {} THEN NA
        ELSE MatchFrom(s, CHOOSE i \in starts : \A j \in starts : i <= j, pat, 1)

S_total_spent == <<"t","o","t","a","l"," ","s","p","e","n","t">>
S_how_much == <<"h","o","w"," ","m","u","c","h"," ","d","i","d"," ","i"," ","s","p","e","n","d">>
S_total_spend == <<"t","o","t","a","l"," ","s","p","e","n","d">>
S_last == <<"l","a","s","t">>
S_expenses == <<"e","x","p","e","n","s","e","s">>
S_show_last_5 == <<"s","h","o","w"," ","l","a","s","t"," ","5"," ","e","x","p","e","n","s","e","s">>
S_largest == <<"l","a","r","g","e","s","t"," ","e","x","p","e","n","s","e">>
S_smallest == <<"s","m","a","l","l","e","s","t"," ","e","x","p","e","n","s","e">>
S_average == <<"a","v","e","r","a","g","e"," ","d","a","i","l","y"," ","s","p","e","n","d">>
S_compare == <<"c","o","m","p","a","r","e">>
S_vs == <<"v","s">>
S_monthly == <<"m","o","n","t","h","l","y">>
S_total == <<"t","o","t","a","l">>
S_for == <<"f","o","r">>
S_spend == <<"s","p","e","n","d">>
S_in == <<"i","n">>
S_between == <<"b","e","t","w","e","e","n">>
S_and == <<"a","n","d">>
S_summarize == <<"s","u","m","m","a","r","i","z","e">>
S_summarize_last == <<"s","u","m","m","a","r","i","z","e"," ","l","a","s","t">>
S_top == <<"t","o","p">>
S_category == <<"c","a","t","e","g","o","r","y">>
S_highest == <<"h","i","g","h","e","s","t">>
S_nan == <<"n","a","n">>

\* r"last\s+(\d+)\s+expenses"
PatLastN == <<Lit(S_last), Ws, GDigits, Ws, Lit(S_expenses)>>
\* r"monthly\s+total\s+for\s+([a-zA-Z]+)\s+(\d{4})"
PatMonthly == <<Lit(S_monthly), Ws, Lit(S_total), Ws, Lit(S_for), Ws, GAlpha, Ws, GYear>>
\* r"spend\s+in\s+([a-zA-Z]+)\s+(\d{4})"
PatSpendIn == <<Lit(S_spend), Ws, Lit(S_in), Ws, GAlpha, Ws, GYear>>
\* r"expenses\s+between\s+(\d{4}-\d{2}-\d{2})\s+and\s+(\d{4}-\d{2}-\d{2})"
PatBetween == <<Lit(S_expenses), Ws, Lit(S_between), Ws, GDate, Ws, Lit(S_and), Ws, GDate>>
\* r"summarize\s+last\s+(\d+)\s+expenses"
PatSummarize == <<Lit(S_summarize), Ws, Lit(S_last), Ws, GDigits, Ws, Lit(S_expenses)>>

\* r"compare\s+([a-zA-Z\s]+)\s+vs\s+([a-zA-Z\s]+)": the two groups overlap the
\* \s+ around them, so the match is stated by its positions.  With "compare"
\* at i and "vs" at v, s[i+7..v-1] is \s+ group1 \s+ (letters and blanks,
\* a blank at either end, at least three characters) and s[v+2..] starts
\* with \s+ group2 (a blank then at least one letter or blank).
CompareAt(s, i, v) ==
    /\ IsAt(s, i, S_compare)
    /\ IsAt(s, v, S_vs)
    /\ v - 1 >= i + 7 + 2
    /\ \A k \in (i + 7)..(v - 1) : IsAlphaSpace(s[k])
    /\ IsSpace(s[i + 7]) /\ IsSpace(s[v - 1])
    /\ v + 3 <= Len(s)
    /\ IsSpace(s[v + 2]) /\ IsAlphaSpace(s[v + 3])

\* the groups <<a, b>> after .strip(), or NA: leftmost "compare", and group1
\* greedy, hence the last "vs" that fits
CompareSearch(s) ==
    LET starts == {i \in 1..Len(s) : \E v \in 1..Len(s) : CompareAt(s, i, v)}
    IN  IF starts = {} THEN NA
        ELSE LET i == CHOOSE x \in starts : \A y \in starts : x <= y
                 vs == {v \in 1..Len(s) : CompareAt(s, i, v)}
                 v == CHOOSE x \in vs : \A y \in vs : x >= y
             IN  Some(<<StrStrip(SubSeq(s, i + 7, v - 1)),
                        StrStrip(SubSeq(s, v + 2, RunEnd(s, v + 2, "alphaspace") - 1))>>)

MonthNames == <<<<"j","a","n","u","a","r","y">>,
    <<"f","e","b","r","u","a","r","y">>,
    <<"m","a","r","c","h">>,
    <<"a","p","r","i","l">>,
    <<"m","a","y">>,
    <<"j","u","n","e">>,
    <<"j","u","l","y">>,
    <<"a","u","g","u","s","t">>,
    <<"s","e","p","t","e","m","b","e","r">>,
    <<"o","c","t","o","b","e","r">>,
    <<"n","o","v","e","m","b","e","r">>,
    <<"d","e","c","e","m","b","e","r">>>>

\* the month of pd.to_datetime(f"01 {month_name} {year}", dayfirst=True), or 0
\* where it raises: full month names and their three-letter abbreviations
MonthNumber(name) ==
    LET hits == {i \in 1..12 : name = MonthNames[i] \/ name = SubSeq(MonthNames[i], 1, 3)}
    IN  IF hits = {} THEN 0 ELSE CHOOSE i \in hits : TRUE

----------------------------------------------------------------------------
(* Formatting *)

Rupee == "₹"
Arrow == "→"
PreviewCap == 50

\* f"{x:.2f}" of a float held in hundredths (NaN prints as nan)
Fmt2(x) ==
    IF IsNa(x) THEN "nan"
    ELSE ToString(Val(x) \div 100) \o "." \o ToString((Val(x) % 100) \div 10)
            \o ToString(Val(x) % 10)

\* str(Timestamp) of a Date cell
DateStr(x) == IF IsNa(x) THEN "NaT" ELSE Text(StampIso(Val(x))) \o " 00:00:00"
\* str() of a text cell: NaN prints as nan
CellStr(x) == IF IsNa(x) THEN S_nan ELSE Val(x)

\* one line of DataFrame.to_string(index=False); the padding that aligns the
\* columns is left out, cells are separated by one blank
RowToString(r) ==
    (IF IsNa(r.Date) THEN "NaT" ELSE Text(StampIso(Val(r.Date)))) \o " "
    \o (IF IsNa(r.Category) THEN "NaN" ELSE Text(Val(r.Category))) \o " "
    \o (IF IsNa(r.Amount) THEN "NaN" ELSE Fmt2(r.Amount)) \o " "
    \o (IF IsNa(r.Note) THEN "NaN" ELSE Text(Val(r.Note)))

\* out.to_string(index=False)
FrameToString(frame) ==
    IF frame = <<>>
    THEN "Empty DataFrame\nColumns: [Date, Category, Amount, Note]\nIndex: []"
    ELSE "Date Category Amount Note"
         \o JoinSeq(Build(Len(frame), LAMBDA i : "\n" \o RowToString(frame[i])))

----------------------------------------------------------------------------
(* Aggregations *)

\* fillna(0) of one Amount
AmountOr0(r) == IF IsNa(r.Amount) THEN 0 ELSE Val(r.Amount)

\* a variant of the sum that counts only the rows with a parsed date
SumAmountsDated(frame) ==
    SumSeq(Build(Len(frame),
                 LAMBDA i : IF IsNa(frame[i].Date) THEN 0 ELSE AmountOr0(frame[i])))

\* frame["Amount"].fillna(0).sum()
SumAmounts(frame) == SumSeq(Build(Len(frame), LAMBDA i : AmountOr0(frame[i])))

\* frame[mask]: the rows at the indices of keep, in order
RowsAt(frame, keep) ==
    Flatten(Build(Len(frame), LAMBDA i : IF i \in keep THEN <<frame[i]>> ELSE <<>>))

\* df.tail(n)
TailRows(frame, n) ==
    IF n <= 0 THEN <<>> ELSE SubSeq(frame, Max2(1, Len(frame) - n + 1), Len(frame))

\* a variant of the clamp without the upper limit
ClampNoCap(n) == Max2(1, n)

\* n = max(1, min(n, 50))
ClampN(n) == Max2(1, Min2(n, PreviewCap))

\* a variant of idxmax that takes the last index of the maximum
IdxMaxLast(frame) ==
    CHOOSE i \in 1..Len(frame) :
        /\ \A j \in 1..Len(frame) : AmountOr0(frame[j]) <= AmountOr0(frame[i])
        /\ \A j \in (i+1)..Len(frame) : AmountOr0(frame[j]) < AmountOr0(frame[i])

\* amount_series.astype(float).fillna(0).idxmax(): first index of the maximum
IdxMax(frame) ==
    CHOOSE i \in 1..Len(frame) :
        /\ \A j \in 1..Len(frame) : AmountOr0(frame[j]) <= AmountOr0(frame[i])
        /\ \A j \in 1..(i-1) : AmountOr0(frame[j]) < AmountOr0(frame[i])

\* amount_series.astype(float).fillna(0).idxmin(): first index of the minimum
IdxMin(frame) ==
    CHOOSE i \in 1..Len(frame) :
        /\ \A j \in 1..Len(frame) : AmountOr0(frame[j]) >= AmountOr0(frame[i])
        /\ \A j \in 1..(i-1) : AmountOr0(frame[j]) > AmountOr0(frame[i])

\* tmp = df.copy(); tmp["_dt"] = dt; tmp.dropna(subset=["_dt"])
ValidDated(frame) == RowsAt(frame, {i \in 1..Len(frame) : ~IsNa(frame[i].Date)})

\* a variant of the selection that compares the month only
MonthSelAnyYear(tmp, year, month) ==
    {i \in 1..Len(tmp) : MonthOf(Val(tmp[i].Date)) = month}

\* sel = (tmp["_dt"].dt.year == year) & (tmp["_dt"].dt.month == month_num)
MonthSel(tmp, year, month) ==
    {i \in 1..Len(tmp) : YearOf(Val(tmp[i].Date)) = year /\ MonthOf(Val(tmp[i].Date)) = month}

\* a variant of the range that leaves its end out
RangeSelOpenEnd(tmp, start, end) ==
    {i \in 1..Len(tmp) : Val(tmp[i].Date) >= start /\ Val(tmp[i].Date) < end}

\* sel = (tmp["_dt"] >= start) & (tmp["_dt"] <= end)
RangeSel(tmp, start, end) ==
    {i \in 1..Len(tmp) : Val(tmp[i].Date) >= start /\ Val(tmp[i].Date) <= end}

\* float(daily.mean()) then :.2f, in hundredths: the quotient rounded to the
\* nearest hundredth, a tie going to the even one.  (The amounts of the model
\* are multiples of ten rupees, so a tie is a multiple of 1/8 and exact in
\* binary floating point, where Python rounds it half-to-even.)
RoundDiv(num, den) ==
    LET q == num \div den
        r == num % den
    IN  IF 2 * r < den THEN q
        ELSE IF 2 * r > den THEN q + 1
        ELSE IF q % 2 = 0 THEN q ELSE q + 1

----------------------------------------------------------------------------
(* The rules of _rule_based_answer, in the order of the code.  A rule's    *)
(* outcome is the set of results [text, rows] it can return for (low, df): *)
(* empty when the rule does not answer and control goes on to the next     *)
(* rule, one result otherwise.  Only the category rule can have several:   *)
(* it takes the first label, in the iteration order of a Python set of     *)
(* str, that occurs in the query, and that order follows the string hashes *)
(* of the process, which are salted anew in every run of the program.      *)

DefaultN == 10
NumRules == 14

\* a variant without the outermost handler: the exception leaves the function
Propagate(msg) == [pc |-> "raised", text |-> ""]

\* except Exception as e: return f"Error processing query: {str(e)}"
Except(msg) == [pc |-> "done", text |-> "Error processing query: " \o msg]

Result(t, r) == [text |-> t, rows |-> r]

\* rule 1: total spend
TotalTrigger(l) ==
    Contains(l, S_total_spent) \/ Contains(l, S_how_much) \/ Contains(l, S_total_spend)
TotalOutcome(l, d) ==
    IF TotalTrigger(l)
    THEN {Result("You've spent a total of " \o Rupee \o Fmt2(Some(SumAmounts(d))) \o ".", d)}
    ELSE {}

\* rule 2: last N expenses
LastNOutcome(l, d) ==
    LET m == Search(l, PatLastN)
    IN  IF IsNa(m) THEN {}
        ELSE LET o == TailRows(d, ClampN(ParseInt(Val(m)[1])))
             IN  {Result(FrameToString(o), o)}

\* rule 3: the alias "show last 5 expenses"
AliasOutcome(l, d) ==
    IF Contains(l, S_show_last_5)
    THEN {Result(FrameToString(TailRows(d, 5)), TailRows(d, 5))}
    ELSE {}

\* note = str(row.get("Note", "")).strip(); note_part = f" Note: {note}." if note else ""
NotePart(row) ==
    LET note == StrStrip(CellStr(row.Note))
    IN  IF note # <<>> THEN " Note: " \o Text(note) \o "." ELSE ""

\* the sentence of the largest / smallest rule for df.iloc[idx]
ExtremeText(label, row) ==
    label \o Rupee \o Fmt2(row.Amount) \o " on " \o DateStr(row.Date)
        \o " (" \o Text(CellStr(row.Category)) \o ")." \o NotePart(row)

\* rule 4: largest expense
LargestOutcome(l, d) ==
    IF Contains(l, S_largest)
    THEN {Result(ExtremeText("Largest expense: ", d[IdxMax(d)]), <<d[IdxMax(d)]>>)}
    ELSE {}

\* rule 5: smallest expense
SmallestOutcome(l, d) ==
    IF Contains(l, S_smallest)
    THEN {Result(ExtremeText("Smallest expense: ", d[IdxMin(d)]), <<d[IdxMin(d)]>>)}
    ELSE {}

\* a variant of the grouping that takes every row for a day of its own
RowsAsDays(tmp) == 1..Len(tmp)

\* the groups of tmp.groupby(tmp["_dt"].dt.date): the calendar days of tmp
DistinctDays(tmp) == {Val(tmp[i].Date) : i \in 1..Len(tmp)}

\* rule 6: average daily spend
AverageOutcome(l, d) ==
    IF Contains(l, S_average)
    THEN LET tmp == ValidDated(d)
             days == DistinctDays(tmp)
         IN  IF tmp = <<>>
             THEN {Result("Dates are not parseable to compute daily average.", <<>>)}
             ELSE {Result("Average daily spend: " \o Rupee
                          \o Fmt2(Some(RoundDiv(SumAmounts(tmp), Cardinality(days)))) \o ".", tmp)}
    ELSE {}

\* known_cats = set(str(c).lower() for c in category_series.dropna().unique())
KnownCats(d) == {StrLower(Val(d[i].Category)) : i \in {j \in 1..Len(d) : ~IsNa(d[j].Category)}}

\* a variant of the mask that counts every category containing the label
CategoryRowsContaining(d, cat) ==
    RowsAt(d, {i \in 1..Len(d) : ~IsNa(d[i].Category) /\ Contains(StrLower(Val(d[i].Category)), cat)})

\* df[category_series.str.lower() == matched_cat]
CategoryRows(d, cat) ==
    RowsAt(d, {i \in 1..Len(d) : ~IsNa(d[i].Category) /\ StrLower(Val(d[i].Category)) = cat})

\* a variant of the test that looks for the label at the start of the query
MatchedCatsAtStart(l, d) == {c \in KnownCats(d) : IsAt(l, 1, c)}

\* the labels the loop `for cat in known_cats: if cat in low` can stop at: any
\* label that occurs in the query is the first one in some iteration order
MatchedCats(l, d) == {c \in KnownCats(d) : Contains(l, c)}

\* rule 7: category mention
CategoryOutcome(l, d) ==
    {Result("You spent " \o Rupee \o Fmt2(Some(SumAmounts(CategoryRows(d, c))))
            \o " on " \o Text(c) \o ".", CategoryRows(d, c)) : c \in MatchedCats(l, d)}

\* mask = category_series.astype(str).str.lower().str.contains(name.lower())
ContainsRows(d, name) ==
    RowsAt(d, {i \in 1..Len(d) : Contains(StrLower(CellStr(d[i].Category)), StrLower(name))})

\* a variant of the comparison in which a tie goes to the second side
WinnerStrict(a, av, b, bv) == IF av > bv THEN a ELSE b

\* winner = a if av >= bv else b
Winner(a, av, b, bv) == IF av >= bv THEN a ELSE b

\* rule 8: compare A vs B
CompareOutcome(l, d) ==
    LET m == CompareSearch(l)
    IN  IF IsNa(m) THEN {}
        ELSE LET a == Val(m)[1]
                 b == Val(m)[2]
                 av == SumAmounts(ContainsRows(d, a))
                 bv == SumAmounts(ContainsRows(d, b))
             IN  {Result(Text(StrTitle(a)) \o ": " \o Rupee \o Fmt2(Some(av)) \o " vs "
                         \o Text(StrTitle(b)) \o ": " \o Rupee \o Fmt2(Some(bv)) \o " "
                         \o Arrow \o " Higher: " \o Text(StrTitle(Winner(a, av, b, bv))) \o ".",
                         ContainsRows(d, a) \o ContainsRows(d, b))}

\* a variant of the handler of the date rules that lets the failure out, to
\* the outermost handler
Reraise(e) == {Result(Except(e).text, <<>>)}

\* except Exception: pass -- the rule gives no answer
Pass(e) == {}

\* rules 9 and 10: "monthly total for <Month> <Year>", "spend in <Month> <Year>";
\* a month name or year that pd.to_datetime rejects is swallowed by `except: pass`
MonthOutcome(l, d, pat, label) ==
    LET tmp == ValidDated(d)
        m == Search(l, pat)
    IN  IF IsNa(m) \/ tmp = <<>> THEN {}
        ELSE LET name == Val(m)[1]
                 year == ParseInt(Val(m)[2])
                 mon == MonthNumber(name)
                 rows == RowsAt(tmp, MonthSel(tmp, year, mon))
             IN  IF mon = 0 \/ ~ValidDate(year, mon, 1) THEN Pass("Unknown datetime string format")
                 ELSE {Result(label \o Text(StrTitle(name)) \o " " \o ToString(year) \o ": "
                              \o Rupee \o Fmt2(Some(SumAmounts(rows))) \o ".", rows)}

MonthlyOutcome(l, d) == MonthOutcome(l, d, PatMonthly, "Total for ")
SpendInOutcome(l, d) == MonthOutcome(l, d, PatSpendIn, "Spend in ")

\* rule 11: expenses between <ISO date> and <ISO date>
BetweenOutcome(l, d) ==
    LET tmp == ValidDated(d)
        m == Search(l, PatBetween)
    IN  IF IsNa(m) \/ tmp = <<>> THEN {}
        ELSE LET start == ToDatetime(Val(m)[1])
                 end == ToDatetime(Val(m)[2])
                 rows == RowsAt(tmp, RangeSel(tmp, Val(start), Val(end)))
             IN  IF IsNa(start) \/ IsNa(end) THEN Pass("Unknown datetime string format")
                 ELSE {Result("Total between " \o Text(StampIso(Val(start))) \o " and "
                              \o Text(StampIso(Val(end))) \o ": " \o Rupee
                              \o Fmt2(Some(SumAmounts(rows))) \o ".", rows)}

\* rule 12: summarize last N expenses
SummarizeOutcome(l, d) ==
    IF Contains(l, S_summarize_last) /\ Contains(l, S_expenses)
    THEN LET m == Search(l, PatSummarize)
             n == ClampN(IF IsNa(m) THEN DefaultN ELSE ParseInt(Val(m)[1]))
             o == TailRows(d, n)
         IN  {Result("Last " \o ToString(n) \o " expenses (total " \o Rupee
                     \o Fmt2(Some(SumAmounts(o))) \o "):\n" \o FrameToString(o), o)}
    ELSE {}

\* the keys of df.groupby(category_series.str.title()): NaN is left out
TitleCats(d) == {StrTitle(Val(d[i].Category)) : i \in {j \in 1..Len(d) : ~IsNa(d[j].Category)}}
\* a variant of the group sum that tells 'Food' from 'food'
TitleSumExact(d, key) ==
    SumAmounts(RowsAt(d, {i \in 1..Len(d) : ~IsNa(d[i].Category) /\ Val(d[i].Category) = key}))

\* the sum of the group of key
TitleSum(d, key) ==
    SumAmounts(RowsAt(d, {i \in 1..Len(d) : ~IsNa(d[i].Category) /\ StrTitle(Val(d[i].Category)) = key}))

\* grouped.index[0] after sort_values(ascending=False): a group of the largest
\* sum.  The sort is not a stable one, so among groups of equal sum it can be
\* any of them.
TopCats(d) ==
    {c \in TitleCats(d) : \A e \in TitleCats(d) : TitleSum(d, e) <= TitleSum(d, c)}

\* rule 13: top category.  (A Category column without any text is read as a
\* float column, and its .str accessor raises.)
TopOutcome(l, d) ==
    IF (Contains(l, S_top) /\ Contains(l, S_category))
       \/ (Contains(l, S_highest) /\ Contains(l, S_category))
    THEN IF TitleCats(d) = {}
         THEN {Result(Except("Can only use .str accessor with string values!").text, <<>>)}
         ELSE {Result("Top category: " \o Text(c) \o " with " \o Rupee
                      \o Fmt2(Some(TitleSum(d, c))) \o ".",
                      RowsAt(d, {i \in 1..Len(d) : ~IsNa(d[i].Category)
                                                   /\ StrTitle(Val(d[i].Category)) = c}))
               : c \in TopCats(d)}
    ELSE {}

\* (the apostrophe of "didn't" is a typographic one in the source)
FallbackText ==
    "Sorry, I didn't understand that. Try asking things like 'total spent', 'food expenses', or 'top category'."
NoDataText == "No expense data available yet. Add some expenses first."

\* a variant of the last rule that answers as if there were no data
FallbackAsNoData(l, d) == {Result(NoDataText, <<>>)}

\* rule 14: nothing matched
FallbackOutcome(l, d) == {Result(FallbackText, <<>>)}

\* the outcome of rule k
Outcome(k, l, d) ==
    CASE k = 1 -> TotalOutcome(l, d)
      [] k = 2 -> LastNOutcome(l, d)
      [] k = 3 -> AliasOutcome(l, d)
      [] k = 4 -> LargestOutcome(l, d)
      [] k = 5 -> SmallestOutcome(l, d)
      [] k = 6 -> AverageOutcome(l, d)
      [] k = 7 -> CategoryOutcome(l, d)
      [] k = 8 -> CompareOutcome(l, d)
      [] k = 9 -> MonthlyOutcome(l, d)
      [] k = 10 -> SpendInOutcome(l, d)
      [] k = 11 -> BetweenOutcome(l, d)
      [] k = 12 -> SummarizeOutcome(l, d)
      [] k = 13 -> TopOutcome(l, d)
      [] k = 14 -> FallbackOutcome(l, d)

----------------------------------------------------------------------------
(* Inputs of the model *)

C_Food == <<"F","o","o","d">>
C_Travel == <<"T","r","a","v","e","l">>
C_food == <<"f","o","o","d">>
C_Seafood == <<"S","e","a","f","o","o","d">>
C_Bills == <<"B","i","l","l","s">>
N_lunch == <<"l","u","n","c","h">>
N_crab == <<"c","r","a","b">>
D_na == <<"n","/","a">>

\* the expenses entered in the "Add Expense" form: date picker, category,
\* amount (hundredths), note
Expense(y, m, d, category, amount, note) ==
    [date |-> <<y, m, d>>, category |-> category, amount |-> amount, note |-> note]

SaveInputs ==
    {Expense(2025, 8, 1, C_Food, 10000, N_lunch),
     Expense(2025, 8, 15, C_Travel, 15000, <<>>),
     Expense(2025, 7, 31, C_food, 15000, <<>>),
     Expense(2024, 8, 10, C_Seafood, 2000, N_crab)}

\* reports/expenses_summary.csv is not written by the application: it is
\* absent, a one-line file without a Note column whose date is not a date, a
\* one-line file whose Amount is empty, or a long file (January and February
\* 2025, one line a day) with one empty Amount
NoReports == [exists |-> FALSE, hasDate |-> TRUE, hasNote |-> FALSE, rows |-> <<>>]
SmallReports ==
    [exists |-> TRUE, hasDate |-> TRUE, hasNote |-> FALSE,
     rows |-> <<[Date |-> D_na, Category |-> C_Bills, Amount |-> Some(4000), Note |-> <<>>]>>]
BulkReports ==
    [exists |-> TRUE, hasDate |-> TRUE, hasNote |-> TRUE,
     rows |-> Build(BulkRows, LAMBDA i :
                 [Date |-> IF i <= 31 THEN IsoFormat(2025, 1, i) ELSE IsoFormat(2025, 2, i - 31),
                  Category |-> C_Bills,
                  Amount |-> IF i = 7 THEN NA ELSE Some(1000),
                  Note |-> <<>>])]
GapReports ==
    [exists |-> TRUE, hasDate |-> TRUE, hasNote |-> TRUE,
     rows |-> <<[Date |-> IsoFormat(2025, 8, 20), Category |-> C_Bills, Amount |-> NA, Note |-> <<>>]>>]
ReportsFiles == {NoReports, SmallReports, GapReports}

\* 'total spent'
Q_total_spent == <<"t","o","t","a","l"," ","s","p","e","n","t">>
\* 'last 3 expenses'
Q_last_3 == <<"l","a","s","t"," ","3"," ","e","x","p","e","n","s","e","s">>
\* 'last 999 expenses'
Q_last_999 == <<"l","a","s","t"," ","9","9","9"," ","e","x","p","e","n","s","e","s">>
\* 'last 50 expenses'
Q_last_50 == <<"l","a","s","t"," ","5","0"," ","e","x","p","e","n","s","e","s">>
\* 'last 51 expenses'
Q_last_51 == <<"l","a","s","t"," ","5","1"," ","e","x","p","e","n","s","e","s">>
\* 'last 0 expenses'
Q_last_0 == <<"l","a","s","t"," ","0"," ","e","x","p","e","n","s","e","s">>
\* 'last 1 expenses'
Q_last_1 == <<"l","a","s","t"," ","1"," ","e","x","p","e","n","s","e","s">>
\* 'show last 5 expenses'
Q_show_last_5 == <<"s","h","o","w"," ","l","a","s","t"," ","5"," ","e","x","p","e","n","s","e","s">>
\* 'largest expense'
Q_largest == <<"l","a","r","g","e","s","t"," ","e","x","p","e","n","s","e">>
\* 'smallest expense'
Q_smallest == <<"s","m","a","l","l","e","s","t"," ","e","x","p","e","n","s","e">>
\* 'average daily spend'
Q_average == <<"a","v","e","r","a","g","e"," ","d","a","i","l","y"," ","s","p","e","n","d">>
\* 'food expenses'
Q_food == <<"f","o","o","d"," ","e","x","p","e","n","s","e","s">>
\* 'compare food vs travel'
Q_compare_food_travel == <<"c","o","m","p","a","r","e"," ","f","o","o","d"," ","v","s"," ","t","r","a","v","e","l">>
\* 'compare foo vs trav'
Q_compare_foo_trav == <<"c","o","m","p","a","r","e"," ","f","o","o"," ","v","s"," ","t","r","a","v">>
\* 'monthly total for August 2025'
Q_monthly_august == <<"m","o","n","t","h","l","y"," ","t","o","t","a","l"," ","f","o","r"," ","A","u","g","u","s","t"," ","2","0","2","5">>
\* 'monthly total for august 2025'
Q_monthly_lower == <<"m","o","n","t","h","l","y"," ","t","o","t","a","l"," ","f","o","r"," ","a","u","g","u","s","t"," ","2","0","2","5">>
\* 'monthly total for foo 2025'
Q_monthly_foo == <<"m","o","n","t","h","l","y"," ","t","o","t","a","l"," ","f","o","r"," ","f","o","o"," ","2","0","2","5">>
\* 'spend in July 2025'
Q_spend_in_july == <<"s","p","e","n","d"," ","i","n"," ","J","u","l","y"," ","2","0","2","5">>
\* 'expenses between 2025-07-31 and 2025-08-15'
Q_between == <<"e","x","p","e","n","s","e","s"," ","b","e","t","w","e","e","n"," ","2","0","2","5","-","0","7","-","3","1"," ","a","n","d"," ","2","0","2","5","-","0","8","-","1","5">>
\* 'summarize last 2 expenses'
Q_summarize_2 == <<"s","u","m","m","a","r","i","z","e"," ","l","a","s","t"," ","2"," ","e","x","p","e","n","s","e","s">>
\* 'summarize last expenses'
Q_summarize == <<"s","u","m","m","a","r","i","z","e"," ","l","a","s","t"," ","e","x","p","e","n","s","e","s">>
\* 'top category'
Q_top_category == <<"t","o","p"," ","c","a","t","e","g","o","r","y">>
\* 'asdkjasd'
Q_unknown == <<"a","s","d","k","j","a","s","d">>

Queries ==
    {Q_total_spent,
     Q_last_3,
     Q_last_999,
     Q_last_50,
     Q_last_0,
     Q_last_1,
     Q_show_last_5,
     Q_largest,
     Q_smallest,
     Q_average,
     Q_food,
     Q_compare_food_travel,
     Q_compare_foo_trav,
     Q_monthly_august,
     Q_monthly_lower,
     Q_monthly_foo,
     Q_spend_in_july,
     Q_between,
     Q_summarize_2,
     Q_summarize,
     Q_top_category,
     Q_unknown}

----------------------------------------------------------------------------
(* The state machine *)

\* save_expense(date, category, amount, note): read the file if it exists,
\* append the new row, write the file
SaveExpenseFile(file, e) ==
    ToCsv((IF file.exists THEN ReadCsv(file) ELSE <<>>)
          \o <<[Date |-> Some(IsoFormat(e.date[1], e.date[2], e.date[3])),
                Category |-> Some(e.category),
                Amount |-> Some(e.amount),
                Note |-> Some(e.note)]>>)

\* a variant of the test that takes every table for non-empty
NeverEmpty(d) == FALSE

\* df is None or df.empty
IsEmptyFrame(d) == d = <<>>

\* a variant of the order that passes over the rule after k
NextRuleSkip(k) == k + 2

\* the rule tried after rule k has not answered
NextRule(k) == k + 1

\* a variant of the entry that matches the query as it was typed
QueryAsTyped(q) == q

\* low = query.lower()
QueryLower(q) == StrLower(q)

\* a variant of the date rules that parse and drop rows in df itself
FrameAfterInPlace(k, d) == IF k \in {6, 9, 10, 11} THEN ValidDated(d) ELSE d

\* df once rule k has run.  The rules that need parsed dates work on
\* tmp = df.copy() (a deep copy): the _dt column and dropna go to the copy,
\* and no other rule assigns to df or to one of its columns.
FrameAfter(k, d) == d

\* no call of update_expense_row or delete_expense_row has been made
NoEdit ==
    [pc |-> "idle", op |-> "none", index |-> 0, args |-> <<>>, table |-> <<>>,
     before |-> NoFile, ok |-> FALSE]

\* the sessions that add expenses
Sessions == {1, 2}

\* no save_expense call is under way
NoSaving ==
    [base |-> <<>>,
     call |-> [s \in Sessions |-> [pc |-> "idle", frame |-> <<>>, new |-> <<>>]]]

\* st.session_state of a new session: none of the keys chatbot_last_input,
\* chatbot_last_response, chatbot_text
NoSession ==
    [last_input |-> NA, last_response |-> NA, text |-> NA,
     event |-> "none", run |-> NA, asked |-> NA]

UiInit ==
    /\ edit = NoEdit
    /\ saving = NoSaving
    /\ session_state = NoSession

Init ==
    /\ csv = NoFile
    /\ reports \in ReportsFiles
    /\ pc = "idle"
    /\ rule = 0
    /\ query = <<>>
    /\ low = <<>>
    /\ df = <<>>
    /\ out = <<>>
    /\ answer = ""
    /\ hpc = "idle"
    /\ user_input = <<>>
    /\ hquery = <<>>
    /\ ai_answer = ""
    /\ reply = ""
    /\ UiInit

SaveExpense(e) ==
    /\ pc = "idle"
    /\ hpc = "idle"
    /\ Len(csv.rows) < MaxRows
    /\ csv' = SaveExpenseFile(csv, e)
    /\ UNCHANGED <<reports, resolver, chat, ui>>

\* _rule_based_answer(q) up to `low = query.lower()`
Resolve(q) ==
    /\ pc = "idle"
    /\ query' = q
    /\ IF LoadRaises(csv, reports)
       THEN /\ answer' = Except(KeyErrorText).text
            /\ pc' = Except(KeyErrorText).pc
            /\ UNCHANGED <<rule, low, df>>
       ELSE \E d \in LoadOutcomes(csv, reports) :
                /\ df' = d
                /\ IF IsEmptyFrame(d)
                   THEN /\ answer' = NoDataText
                        /\ pc' = "done"
                        /\ UNCHANGED <<rule, low>>
                   ELSE /\ low' = QueryLower(q)
                        /\ rule' = 1
                        /\ pc' = "running"
                        /\ UNCHANGED answer
    /\ UNCHANGED <<csv, reports, ui, out>>

\* _rule_based_answer(q) called on its own
Ask(q) ==
    /\ hpc = "idle"
    /\ Resolve(q)
    /\ UNCHANGED chat

\* rule k: return its answer, or go on to the next rule
TryRule(k) ==
    /\ pc = "running"
    /\ rule = k
    /\ LET o == Outcome(k, low, df)
       IN  IF o = {}
           THEN /\ rule' = NextRule(k)
                /\ UNCHANGED <<pc, out, answer>>
           ELSE /\ \E r \in o :
                     /\ answer' = r.text
                     /\ out' = r.rows
                /\ pc' = "done"
                /\ UNCHANGED rule
    /\ df' = FrameAfter(k, df)
    /\ UNCHANGED <<csv, reports, ui, query, low, chat>>

RuleTotal == TryRule(1)
RuleLastN == TryRule(2)
RuleAlias == TryRule(3)
RuleLargest == TryRule(4)
RuleSmallest == TryRule(5)
RuleAverage == TryRule(6)
RuleCategory == TryRule(7)
RuleCompare == TryRule(8)
RuleMonthly == TryRule(9)
RuleSpendIn == TryRule(10)
RuleBetween == TryRule(11)
RuleSummarize == TryRule(12)
RuleTop == TryRule(13)
RuleFallback == TryRule(14)

\* the locals of _rule_based_answer once the call is over
ResolverIdle ==
    /\ pc' = "idle"
    /\ rule' = 0
    /\ query' = <<>>
    /\ low' = <<>>
    /\ df' = <<>>
    /\ out' = <<>>
    /\ answer' = ""

\* the string is returned and the locals of the call are gone
Return ==
    /\ pc = "done"
    /\ hpc = "idle"
    /\ ResolverIdle
    /\ UNCHANGED <<csv, reports, ui, chat>>

Next ==
    \/ \E e \in SaveInputs : SaveExpense(e)
    \/ \E q \in Queries : Ask(q)
    \/ RuleTotal
    \/ RuleLastN
    \/ RuleAlias
    \/ RuleLargest
    \/ RuleSmallest
    \/ RuleAverage
    \/ RuleCategory
    \/ RuleCompare
    \/ RuleMonthly
    \/ RuleSpendIn
    \/ RuleBetween
    \/ RuleSummarize
    \/ RuleTop
    \/ RuleFallback
    \/ Return

Spec == Init /\ [][Next]_vars

----------------------------------------------------------------------------
(* The resolver over a long table: the reports file holds more rows than   *)
(* the preview cap, and the queries are those the first two rules answer.  *)

BulkQueries == {Q_total_spent, Q_last_3, Q_last_999, Q_last_51, Q_last_50, Q_last_0, Q_last_1}

InitBulk ==
    /\ csv = NoFile
    /\ reports = BulkReports
    /\ pc = "idle"
    /\ rule = 0
    /\ query = <<>>
    /\ low = <<>>
    /\ df = <<>>
    /\ out = <<>>
    /\ answer = ""
    /\ hpc = "idle"
    /\ user_input = <<>>
    /\ hquery = <<>>
    /\ ai_answer = ""
    /\ reply = ""
    /\ UiInit

NextBulk ==
    \/ \E e \in SaveInputs : SaveExpense(e)
    \/ \E q \in BulkQueries : Ask(q)
    \/ RuleTotal
    \/ RuleLastN
    \/ Return

SpecBulk == InitBulk /\ [][NextBulk]_vars

----------------------------------------------------------------------------
(* handle_query: the LLM step, and the rule-based resolver as its fallback. *)
(* What the LLM step returns is not computed: it is any of a set of        *)
(* strings, the three failure messages of _llm_answer among them.          *)

\* s.startswith(p)
StartsWith(s, p) == Len(s) >= Len(p) /\ SubSeq(s, 1, Len(p)) = p

PleaseEnterText == "Please enter a question."

\* _llm_answer without an API key
NotConfiguredText ==
    "ChatGPT integration is not configured. Set OPENAI_API_KEY in your environment "
        \o "or .streamlit/secrets.toml to enable AI responses."

\* _llm_answer when `from openai import OpenAI` raises ImportError
NotInstalledText ==
    "The 'openai' package is not installed. Add 'openai' to requirements and run pip install."

\* _llm_answer when the request raises
AiErrorText(msg) == "AI response error: " \o msg

\* a variant of the test that knows the first two failure messages only
IsLlmFailureTwo(a) ==
    \/ StartsWith(a, "ChatGPT integration is not configured")
    \/ StartsWith(a, "The 'openai' package is not installed")

\* the condition under which handle_query falls back to the resolver
IsLlmFailure(a) ==
    \/ StartsWith(a, "ChatGPT integration is not configured")
    \/ StartsWith(a, "The 'openai' package is not installed")
    \/ StartsWith(a, "AI response error")

\* what _llm_answer can return: its failure messages, and replies of the model
\* (one that begins like a failure message, one that only contains one, an
\* empty one)
LlmAnswers ==
    {NotConfiguredText,
     NotInstalledText,
     AiErrorText("Connection error."),
     "You have spent " \o Rupee \o "250.00 so far.",
     "AI response error",
     "Note: ChatGPT integration is not configured",
     ""}

\* ' total spent '
U_total_spent == <<" ","t","o","t","a","l"," ","s","p","e","n","t"," ">>
\* '   '
U_blank == <<" "," "," ">>
\* 'asdkjasd'
U_unknown == <<"a","s","d","k","j","a","s","d">>
\* ' Top Category'
U_top_category == <<" ","T","o","p"," ","C","a","t","e","g","o","r","y">>

\* the arguments of handle_query: None, or a text
ChatInputs == {NA, Some(<<>>), Some(U_blank), Some(U_total_spent), Some(U_unknown),
               Some(U_top_category)}

ChatSaves ==
    {Expense(2025, 8, 1, C_Food, 10000, N_lunch),
     Expense(2025, 8, 15, C_Travel, 15000, <<>>)}

\* a reports file with the columns Category, Amount: a summary without dates
SummaryReports ==
    [exists |-> TRUE, hasDate |-> FALSE, hasNote |-> FALSE,
     rows |-> <<[Date |-> <<>>, Category |-> C_Bills, Amount |-> Some(4000), Note |-> <<>>]>>]

ChatReports == {NoReports, SummaryReports}

\* a variant that passes the input on as it is
QueryUnstripped(u) == IF IsNa(u) THEN <<>> ELSE Val(u)

\* query = (user_input or "").strip()
QueryOf(u) == StrStrip(IF IsNa(u) THEN <<>> ELSE Val(u))

\* handle_query(u) up to `if not query: return "Please enter a question."`
HandleQuery(u) ==
    /\ hpc = "idle"
    /\ pc = "idle"
    /\ user_input' = u
    /\ hquery' = QueryOf(u)
    /\ IF hquery' = <<>>
       THEN reply' = PleaseEnterText /\ hpc' = "returned"
       ELSE reply' = reply /\ hpc' = "llm"
    /\ UNCHANGED <<csv, reports, ui, resolver, ai_answer>>

\* context = _load_context(); ai_answer = _llm_answer(query, context).
\* _load_context reads the files, keeps nothing and catches every exception.
LlmAnswer(a) ==
    /\ hpc = "llm"
    /\ ai_answer' = a
    /\ hpc' = "answered"
    /\ UNCHANGED <<csv, reports, ui, resolver, user_input, hquery, reply>>

\* return ai_answer
ReturnAi ==
    /\ hpc = "answered"
    /\ ~IsLlmFailure(ai_answer)
    /\ reply' = ai_answer
    /\ hpc' = "returned"
    /\ UNCHANGED <<csv, reports, ui, resolver, user_input, hquery, ai_answer>>

\* return _rule_based_answer(query): the call
Fallback ==
    /\ hpc = "answered"
    /\ IsLlmFailure(ai_answer)
    /\ Resolve(hquery)
    /\ hpc' = "fallback"
    /\ UNCHANGED <<user_input, hquery, ai_answer, reply>>

\* return _rule_based_answer(query): the resolver has returned
ReturnFallback ==
    /\ hpc = "fallback"
    /\ pc = "done"
    /\ reply' = answer
    /\ hpc' = "returned"
    /\ UNCHANGED <<csv, reports, ui, resolver, user_input, hquery, ai_answer>>

\* the caller has the reply; the locals of both functions are gone
Finish ==
    /\ hpc = "returned"
    /\ hpc' = "idle"
    /\ user_input' = <<>>
    /\ hquery' = <<>>
    /\ ai_answer' = ""
    /\ reply' = ""
    /\ ResolverIdle
    /\ UNCHANGED <<csv, reports, ui>>

InitChat ==
    /\ csv = NoFile
    /\ reports \in ChatReports
    /\ pc = "idle"
    /\ rule = 0
    /\ query = <<>>
    /\ low = <<>>
    /\ df = <<>>
    /\ out = <<>>
    /\ answer = ""
    /\ hpc = "idle"
    /\ user_input = <<>>
    /\ hquery = <<>>
    /\ ai_answer = ""
    /\ reply = ""
    /\ UiInit

NextChat ==
    \/ \E e \in ChatSaves : SaveExpense(e)
    \/ \E u \in ChatInputs : HandleQuery(u)
    \/ \E a \in LlmAnswers : LlmAnswer(a)
    \/ ReturnAi
    \/ Fallback
    \/ RuleTotal
    \/ RuleLastN
    \/ RuleAlias
    \/ RuleLargest
    \/ RuleSmallest
    \/ RuleAverage
    \/ RuleCategory
    \/ RuleCompare
    \/ RuleMonthly
    \/ RuleSpendIn
    \/ RuleBetween
    \/ RuleSummarize
    \/ RuleTop
    \/ RuleFallback
    \/ ReturnFallback
    \/ Finish

SpecChat == InitChat /\ [][NextChat]_vars

----------------------------------------------------------------------------
(* The resolver over dates: two records of one day, a record without a     *)
(* date, and queries whose month or dates are valid, reversed or not dates. *)

\* a reports file with a record of 2025-08-15, the day of a stored expense
SameDayReports ==
    [exists |-> TRUE, hasDate |-> TRUE, hasNote |-> TRUE,
     rows |-> <<[Date |-> IsoFormat(2025, 8, 15), Category |-> C_Bills,
                 Amount |-> Some(3000), Note |-> <<>>]>>]

DateReports == {NoReports, SmallReports, SameDayReports}

DateSaves ==
    {Expense(2025, 8, 1, C_Food, 10000, N_lunch),
     Expense(2025, 8, 15, C_Travel, 15000, <<>>),
     Expense(2025, 7, 31, C_food, 15000, <<>>)}

\* 'expenses between 2025-08-15 and 2025-07-31'
Q_between_reversed == <<"e","x","p","e","n","s","e","s"," ","b","e","t","w","e","e","n"," ","2","0","2","5","-","0","8","-","1","5"," ","a","n","d"," ","2","0","2","5","-","0","7","-","3","1">>
\* 'expenses between 2025-13-45 and 2025-08-15'
Q_between_bad == <<"e","x","p","e","n","s","e","s"," ","b","e","t","w","e","e","n"," ","2","0","2","5","-","1","3","-","4","5"," ","a","n","d"," ","2","0","2","5","-","0","8","-","1","5">>
\* 'spend in foo 2025 top category'
Q_spend_in_foo_top == <<"s","p","e","n","d"," ","i","n"," ","f","o","o"," ","2","0","2","5"," ","t","o","p"," ","c","a","t","e","g","o","r","y">>
\* 'spend in foo 2025'
Q_spend_in_foo == <<"s","p","e","n","d"," ","i","n"," ","f","o","o"," ","2","0","2","5">>

DateQueries ==
    {Q_average, Q_monthly_foo, Q_spend_in_foo, Q_spend_in_foo_top,
     Q_between, Q_between_reversed, Q_between_bad}

InitDates ==
    /\ csv = NoFile
    /\ reports \in DateReports
    /\ pc = "idle"
    /\ rule = 0
    /\ query = <<>>
    /\ low = <<>>
    /\ df = <<>>
    /\ out = <<>>
    /\ answer = ""
    /\ hpc = "idle"
    /\ user_input = <<>>
    /\ hquery = <<>>
    /\ ai_answer = ""
    /\ reply = ""
    /\ UiInit

NextDates ==
    \/ \E e \in DateSaves : SaveExpense(e)
    \/ \E q \in DateQueries : Ask(q)
    \/ RuleTotal
    \/ RuleLastN
    \/ RuleAlias
    \/ RuleLargest
    \/ RuleSmallest
    \/ RuleAverage
    \/ RuleCategory
    \/ RuleCompare
    \/ RuleMonthly
    \/ RuleSpendIn
    \/ RuleBetween
    \/ RuleSummarize
    \/ RuleTop
    \/ RuleFallback
    \/ Return

SpecDates == InitDates /\ [][NextDates]_vars

----------------------------------------------------------------------------
(* The resolver as a function of the query and the loaded table *)

\* the first rule from k on, in the order of the code, that answers
RECURSIVE FirstFrom(_, _, _)
FirstFrom(k, l, d) ==
    IF k >= NumRules \/ Outcome(k, l, d) # {} THEN k ELSE FirstFrom(k + 1, l, d)

FirstFiring(l, d) == FirstFrom(1, l, d)

\* the strings _rule_based_answer(q) can return when load_data returns d
RuleBasedAnswers(q, d) ==
    IF IsEmptyFrame(d) THEN {NoDataText}
    ELSE UNION {{r.text : r \in Outcome(FirstFiring(l, d), l, d)} : l \in {QueryLower(q)}}

----------------------------------------------------------------------------
(* Properties *)

Done == pc = "done"

\* what the claims call the sum of the amounts of a set of records of df, a
\* missing amount counting as 0
RECURSIVE AmountOfIndices(_)
AmountOfIndices(I) ==
    IF I = {} THEN 0
    ELSE LET i == CHOOSE x \in I : TRUE
         IN  (IF df[i].Amount = <<>> THEN 0 ELSE df[i].Amount[1]) + AmountOfIndices(I \ {i})

\* an amount in hundredths written with exactly two decimals
TwoDecimals(c) ==
    ToString(c \div 100) \o "." \o ToString((c \div 10) % 10) \o ToString(c % 10)

Indices == 1..Len(df)
Dated == {i \in Indices : df[i].Date # <<>>}
CategoryIs(i, label) == df[i].Category = <<label>>

\* C1: on a table whose only categories are Food (summing to 100) and Travel
\* (summing to 150), 'compare food vs travel' is answered with
\* 'Food: Rs100.00 vs Travel: Rs150.00 -> Higher: Travel.'
C1_CompareFoodTravel ==
    (/\ Done
     /\ query = Q_compare_food_travel
     /\ Indices # {}
     /\ \A i \in Indices : CategoryIs(i, C_Food) \/ CategoryIs(i, C_Travel)
     /\ AmountOfIndices({i \in Indices : CategoryIs(i, C_Food)}) = 10000
     /\ AmountOfIndices({i \in Indices : CategoryIs(i, C_Travel)}) = 15000)
    => answer = "Food: " \o Rupee \o "100.00 vs Travel: " \o Rupee \o "150.00 "
                \o Arrow \o " Higher: Travel."

\* C2: on a non-empty table 'summarize last 2 expenses' is answered with the
\* header 'Last 2 expenses (total T):' and the preview of the last two rows,
\* not with the bare table
C2_SummarizeHeader ==
    (Done /\ query = Q_summarize_2 /\ Indices # {})
    => LET last == {i \in Indices : i > Len(df) - 2}
       IN  answer = "Last 2 expenses (total " \o Rupee
                    \o TwoDecimals(AmountOfIndices(last)) \o "):\n"
                    \o FrameToString(SubSeq(df, Max2(1, Len(df) - 1), Len(df)))

\* C3: on a non-empty table the answer is an answer of the first rule, in the
\* order of the code, that answers; no later rule contributes to it; and while
\* a query is being resolved control either returns from the current rule or
\* moves to the rule right after it, never to an earlier one
C3_FirstMatchWins ==
    /\ [](Done /\ df # <<>>
          => /\ rule = FirstFiring(low, df)
             /\ Result(answer, out) \in Outcome(rule, low, df)
             /\ \A k \in 1..(rule - 1) : Outcome(k, low, df) = {})
    /\ [][pc = "running"
          => \/ pc' = "done" /\ rule' = rule
             \/ pc' = "running" /\ rule' = rule + 1 /\ answer' = answer /\ out' = out]_vars

\* a query whose monthly-total trigger matched, whose handler fell through
\* (no such month), and which a later rule answered
C3_Witness ==
    Done /\ df # <<>> /\ query = Q_monthly_foo /\ rule > 9

\* C4 as stated: for any table, the empty one included, the answer to
\* 'total spent' states the sum of all amounts with two decimals
C4_TotalAnyData ==
    (Done /\ query = Q_total_spent)
    => answer = "You've spent a total of " \o Rupee
                \o TwoDecimals(AmountOfIndices(Indices)) \o "."

\* C4: for any non-empty table the answer to 'total spent' states the sum of
\* the amounts of all its records, a missing amount counting as 0, written
\* with exactly two decimals
C4_TotalNonEmpty ==
    (Done /\ query = Q_total_spent /\ Indices # {})
    => answer = "You've spent a total of " \o Rupee
                \o TwoDecimals(AmountOfIndices(Indices)) \o "."

\* a total over a table that holds a record without an amount and a record
\* without a parsed date
C4_Witness ==
    /\ Done
    /\ query = Q_total_spent
    /\ Len(df) >= 2
    /\ \E i \in Indices : df[i].Amount = <<>>
    /\ \E i \in Indices : df[i].Date # <<>> /\ df[i].Amount # <<>>

\* C5: the answer to 'last 3 expenses' lists exactly the 3 records with the
\* chronologically latest dates (all of them when there are fewer than 3):
\* every listed record has a parsed date no earlier than that of any dated
\* record left out
C5_LastThreeLatest ==
    (Done /\ query = Q_last_3 /\ Indices # {})
    => \E I \in SUBSET Indices :
          /\ Cardinality(I) = Min2(3, Len(df))
          /\ out = RowsAt(df, I)
          /\ \A i \in I : \A u \in Dated \ I :
                i \in Dated /\ df[i].Date[1] >= df[u].Date[1]

\* C6: the count of 'last N expenses' is clamped to 1..50: 'last 999 expenses'
\* and 'last 51 expenses' are answered as 'last 50 expenses' is, with at most
\* 50 rows, and 'last 0 expenses' as 'last 1 expenses' is, with one row
C6_ClampLastN ==
    Done =>
        /\ query \in {Q_last_999, Q_last_51}
           => /\ answer \in RuleBasedAnswers(Q_last_50, df)
              /\ Len(out) = Min2(Len(df), 50)
        /\ query = Q_last_0
           => /\ answer \in RuleBasedAnswers(Q_last_1, df)
              /\ Len(out) = Min2(Len(df), 1)

\* 'last 999 expenses' answered over a table of more than 50 rows
C6_Witness ==
    Done /\ query = Q_last_999 /\ Len(df) > 50 /\ Len(out) = 50

\* C7: on a non-empty table the answer to 'largest expense' describes a record
\* whose amount (a missing one counting as 0) is the maximum over the table,
\* and among the records with that amount the first in the table's order
C7_LargestFirst ==
    (Done /\ query = Q_largest /\ Indices # {})
    => \E i \in Indices :
          /\ \A j \in Indices : AmountOfIndices({j}) <= AmountOfIndices({i})
          /\ \A j \in 1..(i - 1) : AmountOfIndices({j}) < AmountOfIndices({i})
          /\ out = <<df[i]>>
          /\ answer = ExtremeText("Largest expense: ", df[i])

\* 'largest expense' answered over a table where two records share the maximum
C7_Witness ==
    /\ Done
    /\ query = Q_largest
    /\ \E i, j \in Indices :
          /\ i < j
          /\ AmountOfIndices({i}) = AmountOfIndices({j})
          /\ \A k \in Indices : AmountOfIndices({k}) <= AmountOfIndices({i})

\* the records of df whose parsed date lies in August 2025
InAugust2025 == {i \in Dated : df[i].Date[1] \div 100 = 202508}

\* the sentence 'Total for August 2025: <sum over InAugust2025>.'
AugustSentence ==
    "Total for August 2025: " \o Rupee
        \o TwoDecimals(AmountOfIndices(InAugust2025)) \o "."

C9_Deterministic ==
    Done => RuleBasedAnswers(query, df) = {answer}

\* C10: over an empty table every query is answered, before any rule is
\* tried, with 'No expense data available yet. Add some expenses first.'
C10_EmptyData ==
    (pc # "idle" /\ df = <<>>)
    => /\ Done
       /\ rule = 0
       /\ out = <<>>
       /\ answer = "No expense data available yet. Add some expenses first."

\* 'largest expense' asked while nothing is stored
C10_Witness ==
    /\ Done
    /\ csv = NoFile
    /\ reports = NoReports
    /\ query = Q_largest
    /\ answer = NoDataText

\* the data source from which load_data cannot build its table: no stored
\* expense, and a reports file with rows but without a Date column
BrokenSource ==
    /\ csv.rows = <<>>
    /\ reports.exists /\ reports.rows # <<>> /\ ~reports.hasDate

\* C11: no exception leaves the resolver: whatever the query and the state of
\* the data source, the call ends with a string, and when the loader fails
\* that string begins with 'Error processing query: '
C11_NoException ==
    /\ pc # "raised"
    /\ (pc \in {"running", "done"} /\ BrokenSource)
       => /\ pc = "done"
          /\ Len(answer) > 24
          /\ SubSeq(answer, 1, 24) = "Error processing query: "

\* the resolver has answered 'total spent' over a source whose load failed
C11_Witness ==
    /\ Done
    /\ BrokenSource
    /\ query = <<"t","o","t","a","l"," ","s","p","e","n","t">>
    /\ answer = "Error processing query: Index(['Date'], dtype='object')"

\* ai_answer begins with one of the three failure prefixes
FailurePrefixed ==
    \E p \in {"ChatGPT integration is not configured",
              "The 'openai' package is not installed",
              "AI response error"} :
        Len(ai_answer) >= Len(p) /\ SubSeq(ai_answer, 1, Len(p)) = p

\* C13: for a non-blank input handle_query runs the resolver, and returns its
\* answer, exactly when the LLM answer begins with one of the three failure
\* prefixes; otherwise it returns the LLM answer unchanged and the resolver
\* has not run
C13_FallbackIffPrefix ==
    /\ hpc \in {"llm", "answered"} => pc = "idle" /\ rule = 0 /\ df = <<>>
    /\ hpc = "fallback" => FailurePrefixed /\ query = hquery
    /\ (hpc = "returned" /\ hquery # <<>>)
       => IF FailurePrefixed
          THEN Done /\ query = hquery /\ reply = answer
          ELSE pc = "idle" /\ rule = 0 /\ df = <<>> /\ answer = "" /\ reply = ai_answer

\* a reply of the LLM that begins with 'AI response error' has sent the
\* query to the resolver, whose answer is returned
C13_Witness ==
    /\ hpc = "returned"
    /\ ai_answer = "AI response error"
    /\ Done
    /\ rule = 1
    /\ reply = answer
    /\ reply # ""

\* a reply of the LLM that only contains a failure message is returned as is
C13_Verbatim ==
    /\ hpc = "returned"
    /\ ai_answer = "Note: ChatGPT integration is not configured"
    /\ reply = ai_answer
    /\ pc = "idle"

\* no trigger phrase, no rule pattern and no category label of df occurs in l
NoTrigger(l) ==
    /\ ~Contains(l, S_total_spent) /\ ~Contains(l, S_how_much) /\ ~Contains(l, S_total_spend)
    /\ IsNa(Search(l, PatLastN))
    /\ ~Contains(l, S_show_last_5)
    /\ ~Contains(l, S_largest) /\ ~Contains(l, S_smallest) /\ ~Contains(l, S_average)
    /\ \A i \in Indices : df[i].Category # <<>> => ~Contains(l, StrLower(df[i].Category[1]))
    /\ IsNa(CompareSearch(l))
    /\ IsNa(Search(l, PatMonthly)) /\ IsNa(Search(l, PatSpendIn)) /\ IsNa(Search(l, PatBetween))
    /\ ~(Contains(l, S_summarize_last) /\ Contains(l, S_expenses))
    /\ ~(Contains(l, S_category) /\ (Contains(l, S_top) \/ Contains(l, S_highest)))

\* C12: over a non-empty table a query that matches no trigger phrase, no rule
\* pattern and no category label of the table is answered with the fixed
\* "didn't understand" message
C12_Fallback ==
    (Done /\ Indices # {} /\ NoTrigger(StrLower(query)))
    => /\ rule = NumRules
       /\ answer = "Sorry, I didn't understand that. Try asking things like "
                   \o "'total spent', 'food expenses', or 'top category'."

\* 'food expenses' over a table in which no category is food
C12_Witness ==
    /\ Done
    /\ Indices # {}
    /\ query = Q_food
    /\ NoTrigger(StrLower(query))
    /\ rule = NumRules

\* C14: resolving a query leaves the stored data as it was: from the call to
\* the return neither file changes, and the loaded table keeps its rows and
\* their Date, Category, Amount and Note values whatever rule is taken
C14_DataUnchanged ==
    [][(pc # "idle" \/ pc' # "idle")
       => /\ csv' = csv
          /\ reports' = reports
          /\ pc \in {"running", "done"} /\ pc' # "idle" => df' = df]_vars

\* a rule that works on the dated rows only has answered over a table that
\* holds an undated row
C14_Witness ==
    /\ Done
    /\ rule \in {6, 9, 10, 11}
    /\ Dated # {}
    /\ Dated # Indices
    /\ df \in LoadOutcomes(csv, reports)

\* C15: when the category-mention rule answers, the amount reported is the sum
\* over exactly the records whose category equals, letter case apart, one
\* label of the table that occurs in the lower-cased query
C15_CategoryExact ==
    (Done /\ rule = 7)
    => \E k \in Indices :
          /\ df[k].Category # <<>>
          /\ LET c == StrLower(df[k].Category[1])
                 I == {i \in Indices : df[i].Category # <<>> /\ StrLower(df[i].Category[1]) = c}
             IN  /\ Contains(low, c)
                 /\ answer = "You spent " \o Rupee \o TwoDecimals(AmountOfIndices(I))
                             \o " on " \o Text(c) \o "."

\* 'food expenses' answered over a table with a food record and a Seafood one
C15_Witness ==
    /\ Done
    /\ rule = 7
    /\ query = Q_food
    /\ \E i \in Indices : CategoryIs(i, C_Seafood)
    /\ \E i \in Indices : CategoryIs(i, C_food)

\* the records whose lower-cased category contains the text side
SideIndices(side) ==
    {i \in Indices : Contains(StrLower(CellStr(df[i].Category)), side)}

\* C16: when the compare rule answers 'compare A vs B', each total is the sum
\* over the records whose lower-cased category contains that side, and the
\* winner named is A when total(A) >= total(B) and B otherwise
C16_CompareTotals ==
    (Done /\ rule = 8)
    => LET m == CompareSearch(low)
           a == m[1][1]
           b == m[1][2]
           ta == AmountOfIndices(SideIndices(a))
           tb == AmountOfIndices(SideIndices(b))
       IN  /\ m # <<>>
           /\ answer = Text(StrTitle(a)) \o ": " \o Rupee \o TwoDecimals(ta) \o " vs "
                       \o Text(StrTitle(b)) \o ": " \o Rupee \o TwoDecimals(tb) \o " "
                       \o Arrow \o " Higher: "
                       \o Text(StrTitle(IF ta >= tb THEN a ELSE b)) \o "."

\* the compare rule has answered with both sides at the same positive total
C16_Witness ==
    /\ Done
    /\ rule = 8
    /\ LET m == CompareSearch(low)
       IN  /\ AmountOfIndices(SideIndices(m[1][1])) = AmountOfIndices(SideIndices(m[1][2]))
           /\ AmountOfIndices(SideIndices(m[1][1])) > 0

\* the title-cased categories of df, and the sum of the records of one
TitleLabels == {StrTitle(df[i].Category[1]) : i \in {j \in Indices : df[j].Category # <<>>}}
TitleTotal(c) ==
    AmountOfIndices({i \in Indices : df[i].Category # <<>> /\ StrTitle(df[i].Category[1]) = c})

\* C20: when the top-category rule answers, the category named is a
\* title-cased category whose sum, taken over the records of every letter
\* case of it, is the largest, and the value reported is that sum
C20_TopCategory ==
    (Done /\ rule = 13)
    => \E c \in TitleLabels :
          /\ \A e \in TitleLabels : TitleTotal(e) <= TitleTotal(c)
          /\ answer = "Top category: " \o Text(c) \o " with " \o Rupee
                      \o TwoDecimals(TitleTotal(c)) \o "."

\* the top-category rule has answered over a table that holds Food and food
C20_Witness ==
    /\ Done
    /\ rule = 13
    /\ \E i \in Indices : CategoryIs(i, C_Food)
    /\ \E i \in Indices : CategoryIs(i, C_food)

\* the calendar days of the dated records of df
Days == {df[i].Date[1] : i \in Dated}

\* v is sum / n rounded to the nearest hundredth
IsMean(v, sum, n) == 2 * v * n - 2 * sum <= n /\ 2 * sum - 2 * v * n <= n

\* C17: over a non-empty table 'average daily spend' is answered with the sum
\* of the amounts of the dated records divided by the number of distinct days
\* among them (to the nearest hundredth), and with 'Dates are not parseable to
\* compute daily average.' when no record has a date
C17_AverageDaily ==
    (Done /\ query = Q_average /\ Indices # {})
    => IF Dated = {}
       THEN answer = "Dates are not parseable to compute daily average."
       ELSE LET sum == AmountOfIndices(Dated)
                n == Cardinality(Days)
            IN  \E v \in {sum \div n, sum \div n + 1} :
                   /\ IsMean(v, sum, n)
                   /\ answer = "Average daily spend: " \o Rupee \o TwoDecimals(v) \o "."

\* the average has been answered over a table with two records of one day
C17_Witness ==
    /\ Done
    /\ query = Q_average
    /\ Cardinality(Days) >= 2
    /\ Cardinality(Days) < Cardinality(Dated)

\* the average has been asked over a table without any dated record
C17_NoDates ==
    /\ Done
    /\ query = Q_average
    /\ Indices # {}
    /\ Dated = {}
    /\ answer = "Dates are not parseable to compute daily average."

\* C18: when 'expenses between S and E' is answered by its rule, the total
\* reported is the sum over exactly the records dated d with S <= d <= E,
\* those dated S or E included, and 0.00 when S > E
C18_BetweenInclusive ==
    (Done /\ rule = 11)
    => LET m == Search(low, PatBetween)
           S == ToDatetime(m[1][1])[1]
           E == ToDatetime(m[1][2])[1]
           I == {i \in Dated : S <= df[i].Date[1] /\ df[i].Date[1] <= E}
       IN  /\ answer = "Total between " \o Text(StampIso(S)) \o " and " \o Text(StampIso(E))
                       \o ": " \o Rupee \o TwoDecimals(AmountOfIndices(I)) \o "."
           /\ S > E => answer = "Total between " \o Text(StampIso(S)) \o " and "
                                \o Text(StampIso(E)) \o ": " \o Rupee \o "0.00."

\* the range 2025-07-31 .. 2025-08-15 has been answered over a table with a
\* record of each of the two days
C18_Witness ==
    /\ Done
    /\ rule = 11
    /\ query = Q_between
    /\ \E i \in Dated : df[i].Date[1] = 20250731 /\ df[i].Amount # <<>>
    /\ \E i \in Dated : df[i].Date[1] = 20250815 /\ df[i].Amount # <<>>

\* a reversed range has been answered with 0.00 over a table with records
\* between its two dates
C18_Reversed ==
    /\ Done
    /\ rule = 11
    /\ query = Q_between_reversed
    /\ \E i \in Dated : df[i].Date[1] = 20250801
    /\ answer = "Total between 2025-08-15 and 2025-07-31: " \o Rupee \o "0.00."

\* the pattern of date rule k (9, 10 or 11) matches l, and the month name or a
\* date it holds cannot be parsed
Unparseable(k, l) ==
    CASE k = 9 -> /\ Search(l, PatMonthly) # <<>>
                  /\ MonthNumber(Search(l, PatMonthly)[1][1]) = 0
      [] k = 10 -> /\ Search(l, PatSpendIn) # <<>>
                   /\ MonthNumber(Search(l, PatSpendIn)[1][1]) = 0
      [] k = 11 -> /\ Search(l, PatBetween) # <<>>
                   /\ \/ ToDatetime(Search(l, PatBetween)[1][1]) = <<>>
                      \/ ToDatetime(Search(l, PatBetween)[1][2]) = <<>>

\* C19: when the pattern of a date rule matches but its month name or date
\* cannot be parsed, the rule gives no answer: control goes on to the next
\* rule, and the answer comes from another rule or is the fallback message,
\* never an 'Error processing query' string
C19_ParseFailureFallsThrough ==
    \A k \in {9, 10, 11} :
        (pc \in {"running", "done"} /\ df # <<>> /\ Unparseable(k, low))
        => /\ Done => rule # k
           /\ Done => ~(Len(answer) >= 22 /\ SubSeq(answer, 1, 22) = "Error processing query")
           /\ Done /\ rule = NumRules
              => answer = "Sorry, I didn't understand that. Try asking things like "
                          \o "'total spent', 'food expenses', or 'top category'."

\* 'spend in foo 2025 top category': the spend-in rule has matched, has not
\* parsed the month, and the top-category rule has answered
C19_Witness ==
    /\ Done
    /\ query = Q_spend_in_foo_top
    /\ Dated # {}
    /\ Unparseable(10, low)
    /\ rule = 13

\* 'expenses between 2025-13-45 and 2025-08-15' has ended in the fallback
C19_BadDate ==
    /\ Done
    /\ query = Q_between_bad
    /\ Dated # {}
    /\ rule = NumRules

\* the answer holds a ' Note: ' part
HasNotePart(s) ==
    \E i \in 1..(Len(s) - 6) : SubSeq(s, i, i + 6) = " Note: "

\* C21: in the answers to 'largest expense' and 'smallest expense' the
\* ' Note: ...' part appears if and only if the selected record has a note: a
\* record whose note is missing (an empty Note cell) or blank yields an answer
\* without any 'Note:' part
C21_NoteIffPresent ==
    (Done /\ query \in {Q_largest, Q_smallest} /\ Indices # {})
    => (HasNotePart(answer)
        <=> (out[1].Note # <<>> /\ \E i \in 1..Len(out[1].Note[1]) : out[1].Note[1][i] # " "))

----------------------------------------------------------------------------
(* The resolver over queries in upper and mixed case, and over a query with *)
(* a letter whose upper-case form does not lower back to it.                *)

\* 'Total SPENT'
Qc_total_spent == <<"T","o","t","a","l"," ","S","P","E","N","T">>
\* 'COMPARE FOO VS TRAV'
Qc_compare_foo_trav == <<"C","O","M","P","A","R","E"," ","F","O","O"," ","V","S"," ","T","R","A","V">>
\* 'Monthly Total For AUGUST 2025'
Qc_monthly_august == <<"M","o","n","t","h","l","y"," ","T","o","t","a","l"," ","F","o","r"," ","A","U","G","U","S","T"," ","2","0","2","5">>
\* 'FOOD expenses'
Qc_food == <<"F","O","O","D"," ","e","x","p","e","n","s","e","s">>
\* 'Largest Expense'
Qc_largest == <<"L","a","r","g","e","s","t"," ","E","x","p","e","n","s","e">>
\* 'compare straße vs tram'
Qc_compare_strasse == <<"c","o","m","p","a","r","e"," ","s","t","r","a","ß","e"," ","v","s"," ","t","r","a","m">>

CaseQueries ==
    {Qc_total_spent, Qc_compare_foo_trav, Qc_monthly_august, Qc_food, Qc_largest,
     Qc_compare_strasse, Q_top_category}

InitCase ==
    /\ csv = NoFile
    /\ reports = NoReports
    /\ pc = "idle"
    /\ rule = 0
    /\ query = <<>>
    /\ low = <<>>
    /\ df = <<>>
    /\ out = <<>>
    /\ answer = ""
    /\ hpc = "idle"
    /\ user_input = <<>>
    /\ hquery = <<>>
    /\ ai_answer = ""
    /\ reply = ""
    /\ UiInit

NextCase ==
    \/ \E e \in DateSaves : SaveExpense(e)
    \/ \E q \in CaseQueries : Ask(q)
    \/ RuleTotal
    \/ RuleLastN
    \/ RuleAlias
    \/ RuleLargest
    \/ RuleSmallest
    \/ RuleAverage
    \/ RuleCategory
    \/ RuleCompare
    \/ RuleMonthly
    \/ RuleSpendIn
    \/ RuleBetween
    \/ RuleSummarize
    \/ RuleTop
    \/ RuleFallback
    \/ Return

SpecCase == InitCase /\ [][NextCase]_vars

\* what the claims call the upper-cased query: str.upper(), under which 'ß',
\* a letter without an upper-case form of its own, becomes 'SS'
StrUpper(s) ==
    Flatten(Build(Len(s), LAMBDA i : IF s[i] = "ß" THEN <<"S","S">> ELSE <<UpperChar(s[i])>>))

\* the answer being returned is an answer to the lower-cased query, and the
\* lower-cased query has the answers of the query
SameAsLowerCased ==
    /\ answer \in RuleBasedAnswers(StrLower(query), df)
    /\ RuleBasedAnswers(StrLower(query), df) = RuleBasedAnswers(query, df)

\* the upper-cased query has the answers of the lower-cased one
SameAsUpperCased ==
    RuleBasedAnswers(StrUpper(query), df) = RuleBasedAnswers(StrLower(query), df)

\* C22 as stated: for every query q and table, the answer to q equals the
\* answer to the lower-cased q and to the upper-cased q
C22_AnyQuery ==
    (Done /\ Indices # {}) => SameAsLowerCased /\ SameAsUpperCased

\* C22: the resolver is case-insensitive in the query: for every query q and
\* table, the answer to q equals the answer to the lower-cased q, for every
\* rule including those that echo parts of the query; it equals the answer to
\* the upper-cased q when lower-casing the upper-cased q gives the lower-cased
\* q, as it does for every query of ASCII characters
C22_CaseInsensitive ==
    (Done /\ Indices # {})
    => /\ SameAsLowerCased
       /\ StrLower(StrUpper(query)) = StrLower(query) => SameAsUpperCased

\* a query in upper case whose month name is echoed in the answer
C22_Witness ==
    /\ Done
    /\ query = Qc_monthly_august
    /\ Indices # {}
    /\ rule = 9
    /\ StrLower(StrUpper(query)) = StrLower(query)
    /\ StrUpper(query) # query

----------------------------------------------------------------------------
(* Properties of the stored expenses *)

\* what the claims call the sum of the amounts of all saved expenses: the sum
\* over the rows of the CSV file
SavedTotal ==
    SumSeq(Build(Len(csv.rows), LAMBDA i :
        IF csv.rows[i].Amount = <<>> THEN 0 ELSE csv.rows[i].Amount[1]))

\* C23: the table is loaded anew on every query and reflects every stored
\* expense: after any sequence of save_expense calls (and without a reports
\* file) the next 'total spent' answer states the sum of the amounts of all
\* saved expenses, also when two of them have the same date, category and
\* amount
C23_TotalAllSaved ==
    (Done /\ query = Q_total_spent /\ reports = NoReports /\ csv.exists)
    => answer = "You've spent a total of " \o Rupee \o TwoDecimals(SavedTotal) \o "."

----------------------------------------------------------------------------
(* The resolver over queries that hold the triggers of two rules: a total   *)
(* phrase with a month or a date range, a category label with the trigger   *)
(* of a later rule.                                                         *)

\* 'total spend in July 2025'
Q_total_spend_in_july == <<"t","o","t","a","l"," ","s","p","e","n","d"," ","i","n"," ","J","u","l","y"," ","2","0","2","5">>
\* 'total spend, expenses between 2025-07-31 and 2025-08-15'
Q_total_spend_between == <<"t","o","t","a","l"," ","s","p","e","n","d",","," ","e","x","p","e","n","s","e","s"," ","b","e","t","w","e","e","n"," ","2","0","2","5","-","0","7","-","3","1"," ","a","n","d"," ","2","0","2","5","-","0","8","-","1","5">>
\* 'top category food'
Q_food_top == <<"t","o","p"," ","c","a","t","e","g","o","r","y"," ","f","o","o","d">>
\* 'travel spend in July 2025'
Q_travel_july == <<"t","r","a","v","e","l"," ","s","p","e","n","d"," ","i","n"," ","J","u","l","y"," ","2","0","2","5">>
\* 'summarize last 2 expenses food'
Q_summarize_food == <<"s","u","m","m","a","r","i","z","e"," ","l","a","s","t"," ","2"," ","e","x","p","e","n","s","e","s"," ","f","o","o","d">>
\* 'bills expenses between 2025-07-31 and 2025-08-15'
Q_bills_between == <<"b","i","l","l","s"," ","e","x","p","e","n","s","e","s"," ","b","e","t","w","e","e","n"," ","2","0","2","5","-","0","7","-","3","1"," ","a","n","d"," ","2","0","2","5","-","0","8","-","1","5">>
\* 'monthly total for August 2025 food'
Q_food_monthly == <<"m","o","n","t","h","l","y"," ","t","o","t","a","l"," ","f","o","r"," ","A","u","g","u","s","t"," ","2","0","2","5"," ","f","o","o","d">>

OrderQueries ==
    {Q_total_spend_in_july, Q_total_spend_between,
     Q_food_top, Q_travel_july, Q_summarize_food, Q_bills_between, Q_food_monthly,
     Q_compare_food_travel, Q_top_category, Q_spend_in_july, Q_unknown}

OrderReports == {NoReports, SmallReports}

InitOrder ==
    /\ csv = NoFile
    /\ reports \in OrderReports
    /\ pc = "idle"
    /\ rule = 0
    /\ query = <<>>
    /\ low = <<>>
    /\ df = <<>>
    /\ out = <<>>
    /\ answer = ""
    /\ hpc = "idle"
    /\ user_input = <<>>
    /\ hquery = <<>>
    /\ ai_answer = ""
    /\ reply = ""
    /\ UiInit

NextOrder ==
    \/ \E e \in DateSaves : SaveExpense(e)
    \/ \E q \in OrderQueries : Ask(q)
    \/ RuleTotal
    \/ RuleLastN
    \/ RuleAlias
    \/ RuleLargest
    \/ RuleSmallest
    \/ RuleAverage
    \/ RuleCategory
    \/ RuleCompare
    \/ RuleMonthly
    \/ RuleSpendIn
    \/ RuleBetween
    \/ RuleSummarize
    \/ RuleTop
    \/ RuleFallback
    \/ Return

SpecOrder == InitOrder /\ [][NextOrder]_vars

\* the records dated from a to b, both included
DatedWithin(a, b) == {i \in Dated : a <= df[i].Date[1] /\ df[i].Date[1] <= b}

\* C24: the month and date-range rules are evaluated before the generic ones:
\* a query that holds a total-spend phrase ('total spend') and a valid 'spend
\* in <Month> <Year>' or 'expenses between <date> and <date>' pattern is
\* answered with the total of the month or of the range, not with the overall
\* total
C24_DateRulesFirst ==
    (Done /\ Dated # {})
    => /\ query = Q_total_spend_in_july
          => answer = "Spend in July 2025: " \o Rupee
                      \o TwoDecimals(AmountOfIndices(DatedWithin(20250701, 20250731))) \o "."
       /\ query = Q_total_spend_between
          => answer = "Total between 2025-07-31 and 2025-08-15: " \o Rupee
                      \o TwoDecimals(AmountOfIndices(DatedWithin(20250731, 20250815))) \o "."

\* the category labels of the table that occur, lower-cased, in the
\* lower-cased query
LabelsInQuery ==
    {StrLower(df[i].Category[1]) :
        i \in {j \in Indices : /\ df[j].Category # <<>>
                               /\ df[j].Category[1] # <<>>
                               /\ Contains(StrLower(query), StrLower(df[j].Category[1]))}}

\* one of the rules before the category-mention rule answers the query
EarlierRuleAnswers ==
    \/ Contains(StrLower(query), S_total_spent) \/ Contains(StrLower(query), S_how_much)
    \/ Contains(StrLower(query), S_total_spend)
    \/ ~IsNa(Search(StrLower(query), PatLastN))
    \/ Contains(StrLower(query), S_show_last_5)
    \/ Contains(StrLower(query), S_largest) \/ Contains(StrLower(query), S_smallest)
    \/ Contains(StrLower(query), S_average)

----------------------------------------------------------------------------
(* Properties of handle_query *)

\* the input is None, empty or made of whitespace only
BlankInput ==
    user_input = <<>> \/ \A i \in 1..Len(user_input[1]) : user_input[1][i] \in {" ", "\t", "\n"}

\* C30: handle_query with a null, empty or whitespace-only input returns
\* 'Please enter a question.' without loading the table, calling the LLM or
\* running the rule-based resolver; for any other input the query passed on to
\* the LLM step and to the resolver is the input with the surrounding
\* whitespace stripped
C30_BlankInput ==
    hpc # "idle"
    => IF BlankInput
       THEN /\ hpc = "returned"
            /\ reply = "Please enter a question."
            /\ ai_answer = ""
            /\ pc = "idle" /\ rule = 0 /\ df = <<>> /\ answer = ""
       ELSE /\ hquery = StrStrip(user_input[1])
            /\ hquery # <<>>
            /\ pc # "idle" => query = StrStrip(user_input[1])

\* a whitespace-only input has been answered
C30_Witness ==
    /\ hpc = "returned"
    /\ user_input = <<U_blank>>
    /\ reply = PleaseEnterText
    /\ csv.exists

\* an input with surrounding blanks has reached the resolver without them
C30_Stripped ==
    /\ hpc = "fallback"
    /\ user_input = <<U_total_spent>>
    /\ query = Q_total_spent

----------------------------------------------------------------------------
(* update_expense_row, delete_expense_row and the edit / remove form *)

\* a variant of the bounds test without the test for a negative index
RowInRangeAbove(row_index, n) == row_index < n

\* not (row_index < 0 or row_index >= len(df))
RowInRange(row_index, n) == row_index >= 0 /\ row_index < n

\* the cells update_expense_row assigns: str(date), category, float(amount), note
EditedRow(e) ==
    [Date |-> Some(e.date), Category |-> Some(e.category),
     Amount |-> Some(e.amount), Note |-> Some(e.note)]

\* read_csv gives a Note column without any text the dtype float64
NoteColumnIsFloat(frame) == \A i \in 1..Len(frame) : IsNa(frame[i].Note)

\* update_expense_row(row_index, date, category, amount, note): what it
\* returns and the file it leaves.  Assigning the note, a str, to a float64
\* column is upcast by a pandas that still allows it and raises TypeError in
\* one that does not; the handler turns the exception into False, and nothing
\* has been written.
UpdateExpenseRow(file, row_index, e) ==
    IF ~file.exists THEN {[ok |-> FALSE, file |-> file]}
    ELSE LET frame == ReadCsv(file)
         IN  IF ~RowInRange(row_index, Len(frame)) THEN {[ok |-> FALSE, file |-> file]}
             ELSE {[ok |-> TRUE,
                    file |-> ToCsv(Build(Len(frame), LAMBDA j :
                                 IF j = row_index + 1 THEN EditedRow(e) ELSE frame[j]))]}
                  \cup (IF NoteColumnIsFloat(frame)
                        THEN {[ok |-> FALSE, file |-> file]} ELSE {})

\* delete_expense_row(row_index): df.drop(index=row_index).reset_index(drop=True)
DeleteExpenseRow(file, row_index) ==
    IF ~file.exists THEN {[ok |-> FALSE, file |-> file]}
    ELSE LET frame == ReadCsv(file)
         IN  IF ~RowInRange(row_index, Len(frame)) THEN {[ok |-> FALSE, file |-> file]}
             ELSE {[ok |-> TRUE,
                    file |-> ToCsv(SubSeq(frame, 1, row_index)
                                   \o SubSeq(frame, row_index + 2, Len(frame)))]}

\* '2025-09-01'
D_sep_1 == <<"2","0","2","5","-","0","9","-","0","1">>

\* what is entered in the fields of the edit form
EditInputs ==
    {[date |-> D_sep_1, category |-> C_Bills, amount |-> 5000, note |-> N_lunch],
     [date |-> D_sep_1, category |-> C_Food, amount |-> 12000, note |-> <<>>]}

EditSaves ==
    {Expense(2025, 8, 1, C_Food, 10000, N_lunch),
     Expense(2025, 7, 31, C_food, 15000, <<>>)}

\* the row indexes the functions are called with
RowIndexes == (0 - 1)..MaxRows

\* the call of op with row index i and fields e; table is the frame the form
\* showed, <<>> when the function is called without the form
EditCall(op, i, e, table) ==
    /\ edit.pc = "idle"
    /\ pc = "idle"
    /\ hpc = "idle"
    /\ \E r \in (IF op = "update" THEN UpdateExpenseRow(csv, i, e)
                                  ELSE DeleteExpenseRow(csv, i)) :
          /\ csv' = r.file
          /\ edit' = [pc |-> "returned", op |-> op, index |-> i, args |-> e,
                      table |-> table, before |-> csv, ok |-> r.ok]
    /\ UNCHANGED <<reports, resolver, chat, saving, session_state>>

UpdateRow(i, e) == EditCall("update", i, e, <<>>)
DeleteRow(i) == EditCall("delete", i, <<>>, <<>>)

\* the edit / remove form: df = load_data() is shown, a row index of df is
\* selected, and "Save Changes" or "Delete Row" passes that index on
FormSubmit(op, i, e) ==
    /\ ~LoadRaises(csv, reports)
    /\ \E d \in LoadOutcomes(csv, reports) :
          /\ ~IsEmptyFrame(d)
          /\ i \in 0..(Len(d) - 1)
          /\ EditCall(op, i, e, d)

SaveChanges(i, e) == FormSubmit("update", i, e)
DeleteRowButton(i) == FormSubmit("delete", i, <<>>)

\* the call has returned and its locals are gone
EditReturn ==
    /\ edit.pc = "returned"
    /\ edit' = NoEdit
    /\ UNCHANGED <<csv, reports, resolver, chat, saving, session_state>>

SaveBeforeEdit(e) == edit.pc = "idle" /\ SaveExpense(e)

InitEdit ==
    /\ csv = NoFile
    /\ reports \in OrderReports
    /\ pc = "idle"
    /\ rule = 0
    /\ query = <<>>
    /\ low = <<>>
    /\ df = <<>>
    /\ out = <<>>
    /\ answer = ""
    /\ hpc = "idle"
    /\ user_input = <<>>
    /\ hquery = <<>>
    /\ ai_answer = ""
    /\ reply = ""
    /\ UiInit

NextEdit ==
    \/ \E e \in EditSaves : SaveBeforeEdit(e)
    \/ \E i \in RowIndexes, e \in EditInputs : UpdateRow(i, e)
    \/ \E i \in RowIndexes : DeleteRow(i)
    \/ \E i \in 0..MaxRows, e \in EditInputs : SaveChanges(i, e)
    \/ \E i \in 0..MaxRows : DeleteRowButton(i)
    \/ EditReturn

SpecEdit == InitEdit /\ [][NextEdit]_vars

\* the rows of the file before the call
BeforeRows == edit.before.rows

\* C27: update_expense_row and delete_expense_row return False and leave the
\* CSV as it was when the file does not exist or the row index is negative or
\* not below the number of stored rows; when update returns True only the
\* four fields of the row at that index have changed, and when delete returns
\* True exactly that row is gone and all other rows are in their previous
\* order
C27_RowBounds ==
    edit.pc = "returned"
    => LET i == edit.index
           n == Len(BeforeRows)
       IN  /\ (~edit.before.exists \/ i < 0 \/ i >= n) => ~edit.ok
           /\ ~edit.ok => csv = edit.before
           /\ (edit.ok /\ edit.op = "update")
              => /\ Len(csv.rows) = n
                 /\ \A j \in 1..n : j # i + 1 => csv.rows[j] = BeforeRows[j]
                 /\ csv.rows[i + 1] = [Date |-> edit.args.date,
                                       Category |-> edit.args.category,
                                       Amount |-> <<edit.args.amount>>,
                                       Note |-> edit.args.note]
           /\ (edit.ok /\ edit.op = "delete")
              => /\ Len(csv.rows) = n - 1
                 /\ \A j \in 1..i : csv.rows[j] = BeforeRows[j]
                 /\ \A j \in (i + 1)..(n - 1) : csv.rows[j] = BeforeRows[j + 1]

\* the middle one of three stored rows has been deleted
C27_Witness ==
    /\ edit.pc = "returned"
    /\ edit.op = "delete"
    /\ edit.ok
    /\ Len(BeforeRows) = 3
    /\ edit.index = 1

\* a call with a negative row index on a file with rows has returned False
C27_Negative ==
    /\ edit.pc = "returned"
    /\ edit.index < 0
    /\ Len(BeforeRows) > 0
    /\ ~edit.ok
    /\ csv = edit.before

\* C25: in the edit / remove form the record that update_expense_row(i, ...)
\* modifies or delete_expense_row(i) removes is the record shown at row index
\* i of the table the user selected from (the output of load_data), for every
\* CSV content that save_expense calls in any order of dates produce
C25_FormRow ==
    (edit.pc = "returned" /\ edit.table # <<>> /\ edit.ok)
    => LET shown == edit.table[edit.index + 1]
           hit == ReadCsvRow(BeforeRows[edit.index + 1])
       IN  /\ shown.Category = hit.Category
           /\ shown.Amount = hit.Amount
           /\ shown.Note = hit.Note
           /\ hit.Date # <<>> /\ shown.Date = ToDatetime(hit.Date[1])

----------------------------------------------------------------------------
(* save_expense called by two sessions: each call reads the file, appends   *)
(* its row to what it read and writes the file, without a lock or a        *)
(* comparison with what the file holds by then.                            *)

\* new = pd.DataFrame([{"Date": date, "Category": category, ...}])
NewRow(e) ==
    [Date |-> Some(IsoFormat(e.date[1], e.date[2], e.date[3])),
     Category |-> Some(e.category),
     Amount |-> Some(e.amount),
     Note |-> Some(e.note)]

\* save_expense up to pd.concat: the file is read if it exists
SaveRead(s, e) ==
    /\ saving.call[s].pc = "idle"
    /\ edit.pc = "idle"
    /\ Len(csv.rows) < MaxRows
    /\ saving' =
         [base |-> IF \A t \in Sessions : saving.call[t].pc = "idle"
                   THEN csv.rows ELSE saving.base,
          call |-> [saving.call EXCEPT ![s] =
                      [pc |-> "read",
                       frame |-> (IF csv.exists THEN ReadCsv(csv) ELSE <<>>) \o <<NewRow(e)>>,
                       new |-> <<ToCsvRow(NewRow(e))>>]]]
    /\ UNCHANGED <<csv, reports, resolver, chat, edit, session_state>>

\* df.to_csv(DATA_PATH, index=False)
SaveWrite(s) ==
    /\ saving.call[s].pc = "read"
    /\ csv' = ToCsv(saving.call[s].frame)
    /\ saving' = [saving EXCEPT !.call[s].pc = "done", !.call[s].frame = <<>>]
    /\ UNCHANGED <<reports, resolver, chat, edit, session_state>>

\* the calls have returned
SavesReturn ==
    /\ \E s \in Sessions : saving.call[s].pc = "done"
    /\ \A s \in Sessions : saving.call[s].pc \in {"idle", "done"}
    /\ saving' = NoSaving
    /\ UNCHANGED <<csv, reports, resolver, chat, edit, session_state>>

InitSessions ==
    /\ csv = NoFile
    /\ reports = NoReports
    /\ pc = "idle"
    /\ rule = 0
    /\ query = <<>>
    /\ low = <<>>
    /\ df = <<>>
    /\ out = <<>>
    /\ answer = ""
    /\ hpc = "idle"
    /\ user_input = <<>>
    /\ hquery = <<>>
    /\ ai_answer = ""
    /\ reply = ""
    /\ UiInit

NextSessions ==
    \/ \E s \in Sessions, e \in DateSaves : SaveRead(s, e)
    \/ \E s \in Sessions : SaveWrite(s)
    \/ SavesReturn

SpecSessions == InitSessions /\ [][NextSessions]_vars

\* the number of rows of a sequence that equal x
Count(rows, x) == Cardinality({i \in 1..Len(rows) : rows[i] = x})

\* C26: no saved expense is lost under concurrent sessions: for every
\* interleaving of the read and write steps of two save_expense calls issued
\* by different sessions on the same CSV, once both calls have completed the
\* file holds both new records and all records it held before
C26_NoLostSave ==
    (\A s \in Sessions : saving.call[s].pc = "done")
    => LET needed == saving.base \o saving.call[1].new \o saving.call[2].new
       IN  \A i \in 1..Len(needed) : Count(csv.rows, needed[i]) >= Count(needed, needed[i])

----------------------------------------------------------------------------
(* The chatbot tab: st.session_state over the runs of chatbot_tab in Text   *)
(* mode.  A run that has an input calls handle_query; it ends before the    *)
(* next run of the session starts.                                          *)

\* a variant that does not keep the input
StoreNoInput(s, u) == s

\* st.session_state["chatbot_last_input"] = user_input
StoreInput(s, u) == [s EXCEPT !.last_input = Some(u)]

\* st.session_state["chatbot_last_response"] = response
StoreResponse(s, r) == [s EXCEPT !.last_response = Some(r)]

\* what the text box holds: '' when the key chatbot_text is not there
BoxText == IF IsNa(session_state.text) THEN <<>> ELSE Val(session_state.text)

\* no run of chatbot_tab is in progress
BotIdle == pc = "idle" /\ hpc = "idle" /\ session_state.event # "asking"

\* a run of chatbot_tab up to the call of handle_query: box is the text of the
\* text box, pressed the prompt of the suggestion button that was pressed (NA
\* when none was).  A user_input that is not empty is kept and will be
\* answered; without one the run is over, and has shown the last interaction
\* if there is one.
RunStart(box, pressed) ==
    /\ BotIdle
    /\ LET u == IF IsNa(pressed) THEN box ELSE Val(pressed)
       IN  IF u # <<>>
           THEN session_state' =
                    [StoreInput(session_state, u) EXCEPT
                        !.text = Some(box), !.event = "asking", !.run = Some(u)]
           ELSE session_state' = [session_state EXCEPT !.text = Some(box), !.event = "shown"]
    /\ UNCHANGED <<csv, reports, resolver, chat, edit, saving>>

\* a text is entered in the text box
TypeText(t) == RunStart(t, NA)

\* a suggestion button is pressed
PressPrompt(p) == RunStart(BoxText, Some(p))

\* a run that another widget of the page started
Rerender == session_state.event # "none" /\ RunStart(BoxText, NA)

\* response = handle_query(user_input): the call
CallHandleQuery ==
    /\ session_state.event = "asking"
    /\ HandleQuery(session_state.run)

\* response = handle_query(user_input): the call has returned, and
\* the response is kept; the run is over
KeepResponse ==
    /\ session_state.event = "asking"
    /\ hpc = "returned"
    /\ session_state' =
           [StoreResponse(session_state, reply) EXCEPT
               !.event = "answered", !.run = NA,
               !.asked = Some([input |-> Val(user_input), reply |-> reply])]
    /\ UNCHANGED <<csv, reports, resolver, chat, edit, saving>>

\* the locals of handle_query are gone
FinishCall == session_state.event # "asking" /\ Finish

\* "Clear chat": the three keys are deleted, and st.rerun() ends the run
ClearChat ==
    /\ BotIdle
    /\ session_state' = [session_state EXCEPT !.last_input = NA, !.last_response = NA,
                                             !.text = NA, !.event = "cleared"]
    /\ UNCHANGED <<csv, reports, resolver, chat, edit, saving>>

\* the texts entered in the text box: '', '   ', ' total spent ', 'asdkjasd'
BoxInputs == {<<>>, U_blank, U_total_spent, U_unknown}

\* the suggestion buttons
Prompts == {Q_total_spent, Q_top_category}

InitBot ==
    /\ csv = NoFile
    /\ reports \in ChatReports
    /\ pc = "idle"
    /\ rule = 0
    /\ query = <<>>
    /\ low = <<>>
    /\ df = <<>>
    /\ out = <<>>
    /\ answer = ""
    /\ hpc = "idle"
    /\ user_input = <<>>
    /\ hquery = <<>>
    /\ ai_answer = ""
    /\ reply = ""
    /\ UiInit

NextBot ==
    \/ \E e \in ChatSaves : SaveExpense(e)
    \/ \E t \in BoxInputs : TypeText(t)
    \/ \E p \in Prompts : PressPrompt(p)
    \/ Rerender
    \/ ClearChat
    \/ CallHandleQuery
    \/ \E a \in LlmAnswers : LlmAnswer(a)
    \/ ReturnAi
    \/ Fallback
    \/ RuleTotal
    \/ RuleLastN
    \/ RuleAlias
    \/ RuleLargest
    \/ RuleSmallest
    \/ RuleAverage
    \/ RuleCategory
    \/ RuleCompare
    \/ RuleMonthly
    \/ RuleSpendIn
    \/ RuleBetween
    \/ RuleSummarize
    \/ RuleTop
    \/ RuleFallback
    \/ ReturnFallback
    \/ KeepResponse
    \/ FinishCall

SpecBot == InitBot /\ [][NextBot]_vars

C28_Cleared ==
    /\ session_state.event = "cleared"
    /\ session_state.asked # <<>>
    /\ session_state.last_response = <<>>

====
